---------------------------- MODULE Spec2Model ----------------------------
(***************************************************************************)
(* Tool-invocation orchestration layer of ai-thing:                        *)
(*   - the conversation loop (GeminiChatHandler.chat and the older         *)
(*     GoogleAIIntegration.chat),                                          *)
(*   - the tool registry (AIToolManager) with its schema sanitizer,        *)
(*   - the remote tool connection (MCPClient) over stdio and HTTP.         *)
(* Each component has its own specification over the shared variables.     *)
(***************************************************************************)
EXTENDS Integers, Sequences, FiniteSets, Bags, TLC

VARIABLES
    \* ---- conversation loop (one chat invocation) ----
    impl,                     \* which chat implementation is running
    chatPc,                   \* position inside chat
    max_tool_calls,           \* parameter of chat
    tool_call_count,          \* local of chat
    previous_tool_calls,      \* local of chat: list of keys, kept as the bag of its elements
    repeated_call_count,      \* local of chat: dict key -> count
    current_message_content,  \* local of chat: payload of the next model call
    tool_name,                \* local of chat: requested tool
    tool_args,                \* local of chat: requested arguments
    chatResult,               \* what chat handed to its caller
    tools,                    \* AIToolManager.tools: name -> executor
    \* ---- observations of one chat invocation ----
    modelCalls,               \* number of send_message calls made
    lastSent,                 \* content of the send_message call whose answer is being handled
    requestLog,               \* bag of the keys of the tool-call requests seen by the loop
    execLog,                  \* bag of the keys of the requests whose executor was invoked
    lastExec,                 \* outcome of the most recent executor lookup/call
    callsAtMax,               \* modelCalls when the counter reached the maximum
    earlier,                  \* the requestLog of each earlier invocation on this object
    \* ---- import of one remote tool's parameter schema ----
    importPc,                 \* "received" or "declared"
    input_schema,             \* tool_def['inputSchema'] as received (Absent when missing)
    parameters,               \* declaration['parameters'] once declared
    \* ---- AIToolManager: discovery of remote tools ----
    function_declarations,    \* self.function_declarations, in order
    mcp_clients,              \* self.mcp_clients: the servers with a client, in order
    remote_tools_loaded,      \* self.remote_tools_loaded
    warnings,                 \* the [WARNING] lines printed by _load_remote_tools
    registered,               \* every assignment self.tools[name] = ..., in order
    list_tools_calls,         \* per server, the list_tools calls made
    returned,                 \* what the last get_all_* call returned
    get_calls,                \* how many get_all_* calls have been made
    \* ---- MCPClient over stdio: one child process, several calling threads ----
    callers,                  \* per thread: where it is in its request
    lock,                     \* the holder of self._lock, "none" when free
    childIn,                  \* request lines the child has not answered yet
    childOut,                 \* lines written by the child and not read yet
    childAlive,               \* the child has not closed its output
    childSilent,              \* the child never writes anything
    nextId,                   \* stands for the next uuid4 request id
    linesWritten,             \* lines the child has written so far
    \* ---- MCPClient construction: the OAuth authorization flow ----
    authConfig,               \* what the configuration holds for this server
    oauthPc,                  \* "init", "waiting", "exchange" or "done"
    oauth_state,              \* the state generated for the flow ("" before)
    auth_code,                \* self.auth_code
    received_state,           \* self.received_state
    access_token,             \* self.access_token
    stored_token,             \* the token kept by the configuration manager
    token_requests,           \* the POSTs sent to the token endpoint
    callbackArrives,          \* some request reaches the local listener
    oauth_flows,              \* how many times _perform_oauth_flow has run
    token_reply,              \* the answer to the token request ("none" before)
    \* ---- MCPClient: the transport of the connection, HTTP requests ----
    transport,                \* "stdio" (self.command) or "http" (self.url)
    request_headers,          \* config['request_headers']
    executing,                \* per thread, the executor whose execute is running
    httpSent,                 \* per thread, the POSTs of its current call
    \* ---- MCPClient: the child's process group and the owner's exit ----
    owner,                    \* "running", "atexit" (handlers running) or "gone"
    exit_path,                \* how the owning process came to exit
    proc,                     \* per process of the child's group: "alive" or "exited"
    heeds,                    \* per process: whether SIGTERM ends it
    signalled,                \* os.killpg has been called on the group
    wait_result,              \* of process.wait(timeout=5): "none", "exited", "timeout"
    signals_sent,             \* how many times os.killpg has been called on the group
    \* ---- the repetition key on its own ----
    keyed,                    \* the requests whose key has been computed, with the key
    \* ---- MCPClient: the child's error stream and its reader thread ----
    stderr_pipe,              \* lines the child has written to stderr, not yet read
    stderr_reader,            \* _read_stderr: "reading", "printing" or "ended"
    drained_under             \* the values of the lock at the moments a line was read

chatVars == <<impl, chatPc, max_tool_calls, tool_call_count, previous_tool_calls,
              repeated_call_count, current_message_content, tool_name, tool_args,
              chatResult, modelCalls, lastSent, requestLog, execLog,
              lastExec, callsAtMax, earlier>>

discoveryVars == <<function_declarations, mcp_clients, remote_tools_loaded,
                   warnings, registered, list_tools_calls, returned, get_calls>>

regVars == <<tools, discoveryVars>>

importVars == <<importPc, input_schema, parameters>>

mcpVars == <<callers, lock, childIn, childOut, childAlive, childSilent,
             nextId, linesWritten>>

authVars == <<authConfig, oauthPc, oauth_state, auth_code, received_state,
              access_token, stored_token, token_requests, callbackArrives,
              oauth_flows, token_reply>>

httpVars == <<transport, request_headers, executing, httpSent>>

teardownVars == <<owner, exit_path, proc, heeds, signalled, wait_result,
                 signals_sent>>

keyVars == <<keyed>>

stderrVars == <<stderr_pipe, stderr_reader, drained_under>>

extraVars == <<authVars, httpVars, teardownVars, keyVars, stderrVars>>

vars == <<chatVars, regVars, importVars, mcpVars, extraVars>>

(***************************************************************************)
(* Bounds of the model.                                                    *)
(***************************************************************************)
MaxBudget == 4
MaxChats == 2
MaxErrLines == 2
MaxSignals == 2
MaxArgs == 2
MaxSessionBudget == 3
MaxDepth == 2
MaxTools == 2
MaxGets == 3
MaxRequests == 2
MaxLines == 3
MaxPartials == 2
MaxMembers == 1

(***************************************************************************)
(* Python values as far as the loop looks at them: a type tag and a body.  *)
(***************************************************************************)
PyDict(b) == [t |-> "dict", v |-> b]
PyStr(b) == [t |-> "str", v |-> b]
PyInt(b) == [t |-> "int", v |-> b]
PyNone == [t |-> "none", v |-> "None"]

\* str(v): a str is itself, anything else becomes the str of its printed form.
Str(v) == IF v.t = "str" THEN v ELSE PyStr(v.v)

\* isinstance(v, dict)
IsDict(v) == v.t = "dict"

\* What a tool may hand back.
ToolValues == {PyDict("data"), PyInt("7")}

(***************************************************************************)
(* Argument bundles: a dict in insertion order, as a sequence of           *)
(* <<key, value>> pairs.  json.dumps(..., sort_keys=True) orders by key.   *)
(***************************************************************************)
KeyRank(k) == CASE k = "a" -> 1 [] k = "b" -> 2 [] OTHER -> 3

ArgBundles == { << <<"a", 1>>, <<"b", 2>> >>,
                << <<"b", 2>>, <<"a", 1>> >>,
                << <<"a", 2>> >> }

RECURSIVE InsertByKey(_, _)
InsertByKey(pair, sorted) ==
    IF sorted = << >> THEN <<pair>>
    ELSE IF KeyRank(pair[1]) <= KeyRank(Head(sorted)[1])
         THEN <<pair>> \o sorted
         ELSE <<Head(sorted)>> \o InsertByKey(pair, Tail(sorted))

RECURSIVE JsonDumpsSorted(_)
JsonDumpsSorted(args) ==
    IF args = << >> THEN << >>
    ELSE InsertByKey(Head(args), JsonDumpsSorted(Tail(args)))

\* The key with the arguments in the order the model sent them.
ToolCallKeyUnsorted(name, args) == <<name, args>>

\* tool_call_key = f"{tool_name}:{json.dumps(tool_args, sort_keys=True)}"
\* The pair stands for the text: function names hold no colon, so the text
\* splits at its first colon into the name and the dumped arguments.
ToolCallKey(name, args) == <<name, JsonDumpsSorted(args)>>

\* The argument dicts a request may carry: up to MaxArgs entries with distinct
\* keys, in any insertion order.
ArgKeys == {"a", "b", "c"}
ArgValues == {1, 2}
ArgDicts ==
    {s \in UNION {[1..n -> ArgKeys \X ArgValues] : n \in 0..MaxArgs} :
        \A i, j \in DOMAIN s : i # j => s[i][1] # s[j][1]}

\* dict equality: the same keys with the same values, whatever the order.
AsMapping(args) == {args[i] : i \in DOMAIN args}

KeyIdle == keyed = << >>

\* Lines 296-297 for one request: the key of (tool_name, tool_args).  Two
\* requests are keyed, to be compared with each other.
ComputeKey(name, args) ==
    /\ Len(keyed) < 2
    /\ keyed' = Append(keyed, [name |-> name, args |-> args,
                               key |-> ToolCallKey(name, args)])
    /\ UNCHANGED <<chatVars, regVars, importVars, mcpVars, authVars, httpVars,
                   teardownVars, stderrVars>>

\* d with d[k] = v
With(d, k, v) == [x \in DOMAIN d \cup {k} |-> IF x = k THEN v ELSE d[x]]

\* d after "del d[k]" for every k of ks that it has
Without(d, ks) == [x \in DOMAIN d \ ks |-> d[x]]

(***************************************************************************)
(* Executors.  A registry entry says how the loop can call it.             *)
(***************************************************************************)
Executor(kind, help) == [kind |-> kind, has_help |-> help,
                         server |-> "", streaming |-> FALSE]

\* RemoteToolExecutor(client, tool_name, supports_streaming): an object with a
\* plain (synchronous) execute method and no get_help.
RemoteToolExecutor(server, streaming) ==
    [kind |-> "object_sync", has_help |-> FALSE,
     server |-> server, streaming |-> streaming]

ToolNames == {"echo", "fetch", "job", "lookup", "ghost"}

\* The registry a chat session runs against: a plain function, an async
\* function, an object with an async execute method and get_help, and a remote
\* executor (an object with a plain execute method); "ghost" is not registered.
ChatRegistry ==
    [n \in {"echo", "fetch", "job", "lookup"} |->
        CASE n = "echo" -> Executor("function", FALSE)
          [] n = "fetch" -> Executor("coroutine_function", FALSE)
          [] n = "job" -> Executor("object_async", TRUE)
          [] n = "lookup" -> RemoteToolExecutor("srv1", FALSE)]

\* A lookup that falls back on some registered tool.
get_tool_instance_or_first(reg, name) ==
    IF name \in DOMAIN reg THEN reg[name] ELSE reg[CHOOSE n \in DOMAIN reg : TRUE]

\* AIToolManager.get_tool_instance: dict.get, None when absent.
NoTool == [kind |-> "none", has_help |-> FALSE, server |-> "", streaming |-> FALSE]
get_tool_instance(reg, name) == IF name \in DOMAIN reg THEN reg[name] ELSE NoTool

\* The tools loaded from the tools directory by _load_local_tools.
LocalRegistry == [n \in {"echo", "fetch", "job"} |-> ChatRegistry[n]]

\* One declaration, by its name and the origin of the tool it declares.
Declaration(name, origin) == [name |-> name, origin |-> origin]
LocalDeclarations ==
    <<Declaration("echo", "local"), Declaration("fetch", "local"),
      Declaration("job", "local")>>

\* One assignment to self.tools.
Registration(name, ex) == [name |-> name, executor |-> ex]
LocalRegistrations ==
    <<Registration("echo", LocalRegistry["echo"]),
      Registration("fetch", LocalRegistry["fetch"]),
      Registration("job", LocalRegistry["job"])>>

\* The enabled servers of the configuration, in its order.
Servers == <<"srv1", "srv2">>
ServerSet == {Servers[i] : i \in 1..Len(Servers)}

\* The clients _create_mcp_clients ends with: a client whose construction
\* raised is left out, the others keep the order of the configuration.
ClientLists == {<< >>, <<"srv1">>, <<"srv2">>, <<"srv1", "srv2">>}

\* A tool definition of a tools/list result: its name ("" when it has none),
\* its supportsStreaming flag, and whether its description is a string.  The
\* name is whatever JSON value the server sent; a list is written as its text.
ToolDef(name, streaming, ok) ==
    [name |-> name, supportsStreaming |-> streaming, description_ok |-> ok]
ToolDefs == {ToolDef("echo", FALSE, TRUE), ToolDef("lookup", FALSE, TRUE),
             ToolDef("lookup", TRUE, TRUE), ToolDef("", FALSE, TRUE),
             ToolDef("lookup", FALSE, FALSE), ToolDef("[lookup]", FALSE, TRUE)}

\* A name that is a list or a dict cannot be a key of self.tools: the test
\* "tool_name in self.tools" raises TypeError for it.
Unhashable(name) == name = "[lookup]"

SeqsUpTo(S, n) == UNION {[1..k -> S] : k \in 0..n}

\* What client.list_tools() does for _load_remote_tools: it raises (a stdio
\* timeout or I/O error) or returns a list, empty after an error response.
ListToolsOutcomes ==
    {[raised |-> TRUE, tools |-> << >>]}
    \cup {[raised |-> FALSE, tools |-> d] : d \in SeqsUpTo(ToolDefs, MaxTools)}

\* The answers of the servers to one get_all_* call: an outcome of list_tools
\* for every client when the call lists the tools, none when it does not.
NoAnswers == [sv \in {} |-> [raised |-> TRUE, tools |-> << >>]]

\* Line 153 without the test of remote_tools_loaded.
NothingToLoadUnlessNoClient(loaded, clients) == clients = << >>

\* Line 153: nothing is listed when the tools are loaded or no client exists.
NothingToLoad(loaded, clients) == loaded \/ clients = << >>

Answers ==
    IF NothingToLoad(remote_tools_loaded, mcp_clients)
    THEN {NoAnswers}
    ELSE [{mcp_clients[i] : i \in 1..Len(mcp_clients)} -> ListToolsOutcomes]

Warning(kind, name, server) == [kind |-> kind, name |-> name, server |-> server]

\* self.tools[tool_name] = executor, keeping the entry already there.
RegisterToolKeepFirst(reg, name, ex) ==
    IF name \in DOMAIN reg THEN reg ELSE With(reg, name, ex)

\* self.tools[tool_name] = executor
RegisterTool(reg, name, ex) == With(reg, name, ex)

\* The body of the loop over remote_tools for the definitions defs of one
\* server, from the manager state st; a definition whose description is not
\* a string raises and ends the server's loop, and so does one whose name is
\* unhashable, after its declaration has been appended.
RECURSIVE RegisterDefs(_, _, _)
RegisterDefs(st, server, defs) ==
    IF defs = << >> THEN st
    ELSE LET tool_def == Head(defs) IN
         IF tool_def.name = ""
         THEN RegisterDefs([st EXCEPT !.warnings =
                               @ \cup {Warning("no_name", "", server)}],
                           server, Tail(defs))
         ELSE IF ~tool_def.description_ok
         THEN st
         ELSE IF Unhashable(tool_def.name)
         THEN [st EXCEPT !.function_declarations =
                  Append(@, Declaration(tool_def.name, server))]
         ELSE LET ex == RemoteToolExecutor(server, tool_def.supportsStreaming) IN
              RegisterDefs(
                [tools |-> RegisterTool(st.tools, tool_def.name, ex),
                 function_declarations |->
                     Append(st.function_declarations,
                            Declaration(tool_def.name, server)),
                 warnings |->
                     IF tool_def.name \in DOMAIN st.tools
                     THEN st.warnings
                          \cup {Warning("collision", tool_def.name, server)}
                     ELSE st.warnings,
                 registered |->
                     Append(st.registered, Registration(tool_def.name, ex))],
                server, Tail(defs))

\* The loop of _load_remote_tools over the clients, in order; answers gives
\* the outcome of each client's list_tools.
RECURSIVE LoadFrom(_, _, _)
LoadFrom(st, clients, answers) ==
    IF clients = << >> THEN st
    ELSE LET server == Head(clients)
             outcome == answers[server]
         IN LoadFrom(IF outcome.raised THEN st
                     ELSE RegisterDefs(st, server, outcome.tools),
                     Tail(clients), answers)

\* _load_remote_tools
LoadRemoteTools(answers) ==
    IF NothingToLoad(remote_tools_loaded, mcp_clients)
    THEN UNCHANGED <<tools, function_declarations, warnings, registered,
                     remote_tools_loaded, list_tools_calls>>
    ELSE LET st == LoadFrom([tools |-> tools,
                             function_declarations |-> function_declarations,
                             warnings |-> warnings,
                             registered |-> registered],
                            mcp_clients, answers)
         IN /\ tools' = st.tools
            /\ function_declarations' = st.function_declarations
            /\ warnings' = st.warnings
            /\ registered' = st.registered
            /\ remote_tools_loaded' = TRUE
            /\ list_tools_calls' =
                   [sv \in ServerSet |->
                       IF \E i \in 1..Len(mcp_clients) : mcp_clients[i] = sv
                       THEN list_tools_calls[sv] + 1
                       ELSE list_tools_calls[sv]]

\* AIToolManager.get_all_tool_definitions
GetAllToolDefinitions(answers) ==
    /\ get_calls < MaxGets
    /\ get_calls' = get_calls + 1
    /\ LoadRemoteTools(answers)
    /\ returned' = IF function_declarations' = << >>
                   THEN "no_definitions" ELSE "definitions"
    /\ UNCHANGED <<mcp_clients, chatVars, importVars, mcpVars, extraVars>>

\* AIToolManager.get_all_tools
GetAllTools(answers) ==
    /\ get_calls < MaxGets
    /\ get_calls' = get_calls + 1
    /\ LoadRemoteTools(answers)
    /\ returned' = "tools"
    /\ UNCHANGED <<mcp_clients, chatVars, importVars, mcpVars, extraVars>>

\* The manager after __init__: the local tools, a client per server whose
\* construction succeeded, nothing listed yet.
RegistryInit ==
    /\ tools = LocalRegistry
    /\ function_declarations = LocalDeclarations
    /\ mcp_clients \in ClientLists
    /\ remote_tools_loaded = FALSE
    /\ warnings = {}
    /\ registered = LocalRegistrations
    /\ list_tools_calls = [sv \in ServerSet |-> 0]
    /\ returned = "nothing"
    /\ get_calls = 0

\* The manager a chat session runs against: srv1 has been listed and has
\* declared the tool lookup.
RegistryLoaded ==
    /\ tools = ChatRegistry
    /\ function_declarations =
           Append(LocalDeclarations, Declaration("lookup", "srv1"))
    /\ mcp_clients = <<"srv1">>
    /\ remote_tools_loaded = TRUE
    /\ warnings = {}
    /\ registered =
           Append(LocalRegistrations, Registration("lookup", ChatRegistry["lookup"]))
    /\ list_tools_calls = [sv \in ServerSet |-> IF sv = "srv1" THEN 1 ELSE 0]
    /\ returned = "tools"
    /\ get_calls = 1


(***************************************************************************)
(* JSON values of a parameter schema: atoms, dicts (key -> value) and      *)
(* lists.                                                                  *)
(***************************************************************************)
Atom(a) == [t |-> "atom", a |-> a]
Dict(d) == [t |-> "dict", d |-> d]
List(l) == [t |-> "list", l |-> l]

\* str.replace of the backtick character by the empty string
RemoveBackticks(a) == IF a = "text_with_backtick" THEN "text" ELSE a

\* A dict with only scalar keywords.
FlatSchemas == UNION {[S -> {Atom("v")}] : S \in SUBSET {"type", "minimum"}}

\* The schemas a server may send, to nesting depth n: a flat dict, possibly
\* with one nested schema under properties, under items (as a dict or as a
\* list of schemas) or under anyOf.
RECURSIVE SchemasTo(_)
SchemasTo(n) ==
    IF n = 0 THEN FlatSchemas
    ELSE LET C == SchemasTo(n - 1) IN
         FlatSchemas
         \cup {With(b, "properties", Dict([p \in {"x"} |-> Dict(c)])) : b \in FlatSchemas, c \in C}
         \cup {With(b, "items", Dict(c)) : b \in FlatSchemas, c \in C}
         \cup {With(b, "items", List(<<Dict(c)>>)) : b \in FlatSchemas, c \in C}
         \cup {With(b, "anyOf", List(<<Dict(c)>>)) : b \in FlatSchemas, c \in C}

\* At the top level a schema may also carry $schema or a description.
InputSchemas ==
    LET S == SchemasTo(MaxDepth) IN
    S \cup {With(sc, "$schema", Atom("v")) : sc \in S}
      \cup {With(sc, "description", Atom("text_with_backtick")) : sc \in S}

\* tool_def.get('inputSchema', {'type': 'object', 'properties': {}})
Absent == [t |-> "absent"]
DefaultSchema == [k \in {"type", "properties"} |->
                    IF k = "type" THEN Atom("object") ELSE Dict(<< >>)]

\* unsupported_keys of _sanitize_schema
UnsupportedKeys == {"minimum", "maximum", "example", "additionalProperties",
                    "$schema", "default", "format", "nullable"}

\* AIToolManager._sanitize_schema: drop the unsupported keys of this dict,
\* strip backticks from its description, recurse into the dict-valued entries
\* of properties and into a dict-valued items.
RECURSIVE SanitizeSchema(_)
SanitizeSchema(schema) ==
    LET kept == Without(schema, UnsupportedKeys) IN
    [k \in DOMAIN kept |->
        IF k = "description" /\ kept[k].t = "atom"
        THEN Atom(RemoveBackticks(kept[k].a))
        ELSE IF k = "properties" /\ kept[k].t = "dict"
        THEN Dict([p \in DOMAIN kept[k].d |->
                     IF kept[k].d[p].t = "dict"
                     THEN Dict(SanitizeSchema(kept[k].d[p].d))
                     ELSE kept[k].d[p]])
        ELSE IF k = "items" /\ kept[k].t = "dict"
        THEN Dict(SanitizeSchema(kept[k].d))
        ELSE kept[k]]

\* _load_remote_tools, lines 170-177: the parameters of the declaration.
ImportedParameters(received) ==
    LET schema == IF received = Absent THEN DefaultSchema ELSE received IN
    SanitizeSchema(Without(schema, {"additionalProperties", "$schema"}))

\* Whether a JSON value has one of the keys ks as a dict key at any depth.
RECURSIVE HasKeyDeep(_, _)
HasKeyDeep(v, ks) ==
    IF v.t = "dict"
    THEN \/ DOMAIN v.d \cap ks # {}
         \/ \E k \in DOMAIN v.d : HasKeyDeep(v.d[k], ks)
    ELSE IF v.t = "list"
    THEN \E i \in 1..Len(v.l) : HasKeyDeep(v.l[i], ks)
    ELSE FALSE

\* No import in progress.
ImportIdle ==
    /\ importPc = "idle"
    /\ input_schema = Absent
    /\ parameters = << >>

\* A tool definition has arrived with some inputSchema, or with none.
ImportInit ==
    /\ importPc = "received"
    /\ input_schema \in InputSchemas \cup {Absent}
    /\ parameters = << >>

\* The declaration is built from the tool definition.
Declare ==
    /\ importPc = "received"
    /\ importPc' = "declared"
    /\ parameters' = ImportedParameters(input_schema)
    /\ UNCHANGED <<input_schema, chatVars, regVars, mcpVars, extraVars>>

(***************************************************************************)
(* MCPClient on the stdio transport.  Threads call list_tools and          *)
(* execute_tool; each request is one line written to the child's input,    *)
(* each response or stream event one line read from its output.            *)
(***************************************************************************)
Threads == {"t1", "t2"}

\* list_tools, execute_tool(use_streaming=False), execute_tool(use_streaming=True)
Ops == {"list", "call", "stream"}

\* A line of the child's output: a JSON-RPC response (tools, result_text,
\* result_plain, is_error, error), a stream event (partial, final) or text
\* that is not JSON (garbage); id is the id of the request it answers.
Line(kind, id, parts) == [kind |-> kind, id |-> id, parts |-> parts]

\* "\n".join(parts)
RECURSIVE Join(_)
Join(parts) ==
    IF Len(parts) <= 1 THEN parts
    ELSE <<Head(parts), "\n">> \o Join(Tail(parts))

\* What a call gave its caller: a returned value or a raised exception, with
\* the id of the line the value was taken from (0 when from no line).
Outcome(status, shape, text, from) ==
    [status |-> status, shape |-> shape, text |-> text, from |-> from]
NoOutcome == Outcome("none", "none", << >>, 0)
Returned(shape, text, from) == Outcome("returned", shape, text, from)
Raised(exc) == Outcome("raised", exc, << >>, 0)

Caller(pc, op, id, acc, outcome) ==
    [pc |-> pc, op |-> op, id |-> id, acc |-> acc, outcome |-> outcome]
IdleCaller == Caller("idle", "none", 0, << >>, NoOutcome)

\* list_tools, lines 397-414, on the decoded response line.
ListToolsResult(line, request_id) ==
    IF line.kind = "error" THEN Returned("empty_list", << >>, 0)
    ELSE IF line.id # request_id THEN Returned("empty_list", << >>, 0)
    ELSE IF line.kind = "tools" THEN Returned("tools", << >>, line.id)
    ELSE Returned("empty_list", << >>, 0)

\* execute_tool, lines 436-445, on the decoded response line.
ExecuteToolResult(line, request_id) ==
    IF line.kind = "error" THEN Returned("error", << >>, 0)
    ELSE IF line.kind = "is_error" THEN Returned("error", << >>, 0)
    ELSE IF line.kind = "result_text" THEN Returned("text", Join(line.parts), line.id)
    ELSE Returned("result", << >>, line.id)

\* The executors the registry can hold for the tools of this connection.
RemoteExecutors == {RemoteToolExecutor("srv1", streaming) : streaming \in BOOLEAN}

\* RemoteToolExecutor.execute with use_streaming never set.
ExecuteToolOpNeverStreaming(ex) == "call"

\* RemoteToolExecutor.execute: execute_tool(..., use_streaming=supports_streaming)
ExecuteToolOp(ex) == IF ex.streaming THEN "stream" ELSE "call"

\* The thread starts a call: the request gets a fresh id.
Begin(t, op) ==
    /\ callers[t].pc = "idle"
    /\ nextId <= MaxRequests
    /\ callers' = [callers EXCEPT ![t] = Caller("lock", op, nextId, << >>, NoOutcome)]
    /\ nextId' = nextId + 1
    /\ UNCHANGED <<lock, childIn, childOut, childAlive, childSilent, linesWritten>>
    /\ UNCHANGED <<chatVars, regVars, importVars, keyVars, stderrVars, authVars, teardownVars>>
    /\ UNCHANGED <<transport, request_headers, httpSent>>

\* The threads are interchangeable: when both are free, the next call is the
\* one of t1.
FirstFree(t) == t = "t1" \/ callers["t1"].pc # "idle"

\* client.list_tools(), called by the tool manager.
ListTools(t) ==
    /\ FirstFree(t)
    /\ Begin(t, "list")
    /\ UNCHANGED executing

\* RemoteToolExecutor.execute: the call goes to execute_tool with the
\* executor's streaming flag.
RemoteExecute(t, ex) ==
    /\ FirstFree(t)
    /\ Begin(t, ExecuteToolOp(ex))
    /\ executing' = [executing EXCEPT ![t] = ex]

\* The lock can be taken whoever holds it.
LockFreeAlways(l) == TRUE

\* threading.Lock: it can be taken when nobody holds it.
LockFree(l) == l = "none"

\* with self._lock: write the request line and flush.  Writing to a child
\* that has exited is an I/O error: _stdio_request lets it propagate,
\* _stdio_streaming_request turns it into an error result.
Acquire(t) ==
    /\ transport = "stdio"
    /\ callers[t].pc = "lock"
    /\ LockFree(lock)
    /\ IF childAlive
       THEN /\ lock' = t
            /\ childIn' = Append(childIn, [id |-> callers[t].id,
                                           op |-> callers[t].op, sent |-> 0])
            /\ callers' = [callers EXCEPT ![t].pc =
                              IF callers[t].op = "stream" THEN "readline" ELSE "select"]
       ELSE /\ callers' = [callers EXCEPT
                              ![t].pc = "done",
                              ![t].outcome = IF callers[t].op = "stream"
                                             THEN Returned("error", << >>, 0)
                                             ELSE Raised("IOError")]
            /\ UNCHANGED <<lock, childIn>>
    /\ UNCHANGED <<childOut, childAlive, childSilent, nextId, linesWritten>>
    /\ UNCHANGED <<chatVars, regVars, importVars, extraVars>>

\* _stdio_request: select returns with nothing to read; TimeoutError leaves
\* the with block, which releases the lock.
SelectTimeout(t) ==
    /\ callers[t].pc = "select"
    /\ childOut = << >>
    /\ childAlive
    /\ callers' = [callers EXCEPT ![t].pc = "done",
                                  ![t].outcome = Raised("TimeoutError")]
    /\ lock' = "none"
    /\ UNCHANGED <<childIn, childOut, childAlive, childSilent, nextId, linesWritten>>
    /\ UNCHANGED <<chatVars, regVars, importVars, extraVars>>

\* _stdio_request: the output is readable; one line is read and decoded, the
\* lock is released and list_tools or execute_tool builds its result.
ReadResponse(t) ==
    /\ callers[t].pc = "select"
    /\ childOut # << >> \/ ~childAlive
    /\ callers' = [callers EXCEPT
          ![t].pc = "done",
          ![t].outcome =
              IF childOut = << >> THEN Raised("IOError")
              ELSE IF Head(childOut).kind = "garbage" THEN Raised("IOError")
              ELSE IF callers[t].op = "list"
              THEN ListToolsResult(Head(childOut), callers[t].id)
              ELSE ExecuteToolResult(Head(childOut), callers[t].id)]
    /\ childOut' = IF childOut = << >> THEN childOut ELSE Tail(childOut)
    /\ lock' = "none"
    /\ UNCHANGED <<childIn, childAlive, childSilent, nextId, linesWritten>>
    /\ UNCHANGED <<chatVars, regVars, importVars, extraVars>>

\* full_response_content after a final event, with the final fragments
\* appended to what the partial events gave.
FinalContentAppended(acc, parts) == acc \o parts

\* _stdio_streaming_request, lines 490-492: the final event's text fragments
\* replace the accumulated ones when there are any.
FinalContent(acc, parts) == IF parts # << >> THEN parts ELSE acc

\* _stdio_streaming_request: one turn of the while loop, a readline without
\* timeout and the handling of the line read.
StreamRead(t) ==
    /\ callers[t].pc = "readline"
    /\ childOut # << >> \/ ~childAlive
    /\ IF childOut = << >>
       THEN /\ callers' = [callers EXCEPT
                   ![t].pc = "done",
                   ![t].outcome = Returned("text", Join(callers[t].acc), 0)]
            /\ lock' = "none"
       ELSE LET event == Head(childOut) IN
            IF event.kind = "error" /\ event.id = callers[t].id
            THEN /\ callers' = [callers EXCEPT
                        ![t].pc = "done",
                        ![t].outcome = Returned("event", << >>, event.id)]
                 /\ lock' = "none"
            ELSE IF event.kind = "partial"
            THEN /\ callers' = [callers EXCEPT ![t].acc = @ \o event.parts]
                 /\ UNCHANGED lock
            ELSE IF event.kind = "final"
            THEN /\ callers' = [callers EXCEPT
                        ![t].pc = "done",
                        ![t].acc = FinalContent(@, event.parts),
                        ![t].outcome =
                            Returned("text",
                                     Join(FinalContent(callers[t].acc, event.parts)),
                                     event.id)]
                 /\ lock' = "none"
            ELSE /\ UNCHANGED <<callers, lock>>
    /\ childOut' = IF childOut = << >> THEN childOut ELSE Tail(childOut)
    /\ UNCHANGED <<childIn, childAlive, childSilent, nextId, linesWritten>>
    /\ UNCHANGED <<chatVars, regVars, importVars, extraVars>>

\* The caller has its result; the thread is free for another call.
Finish(t) ==
    /\ callers[t].pc = "done"
    /\ callers' = [callers EXCEPT ![t] = IdleCaller]
    /\ executing' = [executing EXCEPT ![t] = NoTool]
    /\ httpSent' = [httpSent EXCEPT ![t] = << >>]
    /\ UNCHANGED <<transport, request_headers>>
    /\ UNCHANGED <<lock, childIn, childOut, childAlive, childSilent, nextId,
                   linesWritten>>
    /\ UNCHANGED <<chatVars, regVars, importVars, keyVars, stderrVars, authVars, teardownVars>>

\* The text of the i-th partial event of a stream.
PartialText(i) == IF i = 1 THEN "Par" ELSE IF i = 2 THEN "tial" ELSE "more"

\* The lines a child can write for the oldest request it has not answered.
AnswerKinds(request) ==
    IF request.op = "list" THEN {"tools", "error"}
    ELSE IF request.op = "call"
    THEN {"result_text", "result_plain", "is_error", "error"}
    ELSE {"partial", "final", "final_without_text", "error"}

\* The child answers its oldest request, in its own time: a response, or for
\* a streaming call a partial event or the final one.
ChildWrite(kind) ==
    /\ childAlive
    /\ ~childSilent
    /\ childIn # << >>
    /\ linesWritten < MaxLines
    /\ kind \in AnswerKinds(Head(childIn))
    /\ LET request == Head(childIn) IN
       IF kind = "partial"
       THEN /\ childOut' = Append(childOut,
                   Line("partial", request.id,
                        <<PartialText(request.sent + 1)>>))
            /\ childIn' = <<[request EXCEPT !.sent = @ + 1]>> \o Tail(childIn)
       ELSE /\ childOut' = Append(childOut,
                   IF kind = "final" THEN Line("final", request.id, <<"Result">>)
                   ELSE IF kind = "final_without_text"
                   THEN Line("final", request.id, << >>)
                   ELSE IF kind = "result_text"
                   THEN Line("result_text", request.id, <<"Result">>)
                   ELSE Line(kind, request.id, << >>))
            /\ childIn' = Tail(childIn)
    /\ linesWritten' = linesWritten + 1
    /\ UNCHANGED <<callers, lock, childAlive, childSilent, nextId>>
    /\ UNCHANGED <<chatVars, regVars, importVars, extraVars>>

\* The child writes a line that is not JSON.
ChildGarbage ==
    /\ childAlive
    /\ ~childSilent
    /\ linesWritten < MaxLines
    /\ childOut' = Append(childOut, Line("garbage", 0, << >>))
    /\ linesWritten' = linesWritten + 1
    /\ UNCHANGED <<callers, lock, childIn, childAlive, childSilent, nextId>>
    /\ UNCHANGED <<chatVars, regVars, importVars, extraVars>>

\* The child exits: its output reaches end of file once read to the end.
ChildExit ==
    /\ childAlive
    /\ ~childSilent
    /\ childAlive' = FALSE
    /\ UNCHANGED <<callers, lock, childIn, childOut, childSilent, nextId,
                   linesWritten>>
    /\ UNCHANGED <<chatVars, regVars, importVars, extraVars>>

\* A started child, no request made yet.
McpStarted ==
    /\ callers = [t \in Threads |-> IdleCaller]
    /\ lock = "none"
    /\ childIn = << >>
    /\ childOut = << >>
    /\ childAlive = TRUE
    /\ nextId = 1
    /\ linesWritten = 0

McpIdle ==
    /\ McpStarted
    /\ childSilent = FALSE

(***************************************************************************)
(* MCPClient._read_stderr: the daemon thread that logs the child's stderr. *)
(***************************************************************************)
\* The child writes a line to its error stream.
ChildWritesStderr ==
    /\ childAlive
    /\ stderr_pipe < MaxErrLines
    /\ stderr_pipe' = stderr_pipe + 1
    /\ UNCHANGED <<stderr_reader, drained_under>>
    /\ UNCHANGED <<chatVars, regVars, importVars, mcpVars, authVars, httpVars,
                   teardownVars, keyVars>>

\* A reader that takes the request lock around each read.
StderrReadableUnlocked(l, pipe) == pipe > 0 /\ l = "none"

\* self.process.stderr.readline() returns a line as soon as there is one; the
\* loop of _read_stderr has no "with self._lock".
StderrReadable(l, pipe) == pipe > 0

\* One turn of the for loop of _read_stderr: a line is read, to be printed.
ReadStderr ==
    /\ stderr_reader = "reading"
    /\ StderrReadable(lock, stderr_pipe)
    /\ stderr_pipe' = stderr_pipe - 1
    /\ stderr_reader' = "printing"
    /\ drained_under' = drained_under \cup {lock}
    /\ UNCHANGED <<chatVars, regVars, importVars, mcpVars, authVars, httpVars,
                   teardownVars, keyVars>>

\* The print of the line (or its suppression) is over, however long it took.
StderrPrinted ==
    /\ stderr_reader = "printing"
    /\ stderr_reader' = "reading"
    /\ UNCHANGED <<stderr_pipe, drained_under>>
    /\ UNCHANGED <<chatVars, regVars, importVars, mcpVars, authVars, httpVars,
                   teardownVars, keyVars>>

\* readline returns '' at the end of the stream: the thread ends.
StderrEnds ==
    /\ stderr_reader = "reading"
    /\ stderr_pipe = 0
    /\ ~childAlive
    /\ stderr_reader' = "ended"
    /\ UNCHANGED <<stderr_pipe, drained_under>>
    /\ UNCHANGED <<chatVars, regVars, importVars, mcpVars, authVars, httpVars,
                   teardownVars, keyVars>>

\* The thread has just been started and the child has written nothing.
StderrIdle ==
    /\ stderr_pipe = 0
    /\ stderr_reader = "reading"
    /\ drained_under = {}

(***************************************************************************)
(* MCPClient construction: _perform_oauth_if_needed and the OAuth 2.1      *)
(* authorization-code flow with PKCE.                                      *)
(***************************************************************************)
\* Python's None, for a code, a state or a token that is not there.
None == "None"

\* What the configuration says about the server: whether it is the one
\* server that authenticates (jira-thing), whether a client id is saved,
\* whether a base URL can be derived, whether a client secret is saved.
AuthConfigs == [jira : BOOLEAN, client_id : BOOLEAN, base_url : BOOLEAN,
                client_secret : BOOLEAN]

\* The values uuid4 can give the state of one flow.
OAuthStates == {"s1", "s2"}

\* A request reaching the local listener: a GET whose query may carry a code
\* and a state, or a request of another method (answered without do_GET).
CallbackRequests ==
    [get : {TRUE}, code : {None, "code"}, state : {None, "s1", "s2"}]
    \cup {[get |-> FALSE, code |-> None, state |-> None]}

\* The answers of the token endpoint: 200 with or without access_token, an
\* error status, or a failure of the connection.
TokenReplies == {"ok_token", "ok_without_token", "http_error", "network_error"}

\* The token request of lines 181-200.
TokenRequest(code, secret) ==
    [grant_type |-> "authorization_code", code |-> code,
     code_verifier |-> "verifier", client_secret_in_body |-> secret,
     headers |-> {"Accept"}]

\* Lines 210-216 with the test for the access_token field left out.
TokenGrantedByStatus(reply) == reply \in {"ok_token", "ok_without_token"}

\* Lines 200-212: the answer has status 200 and its JSON body has an
\* access_token field.
TokenGranted(reply) == reply = "ok_token"

\* Line 177 with the test of the state left out.
CallbackAcceptedAnyState(code, received, generated) == code # None

\* Line 177: the flow goes on when a code came with the generated state.
CallbackAccepted(code, received, generated) ==
    ~(code = None \/ received # generated)

\* MCPClient.__init__ up to the wait for the callback: no flow for another
\* server, the saved token when there is one, else the flow up to
\* httpd.handle_request().
PerformOAuthIfNeeded(generated, bind_ok) ==
    /\ oauthPc = "init"
    /\ IF ~authConfig.jira
       THEN /\ oauthPc' = "done"
            /\ UNCHANGED <<access_token, oauth_flows, oauth_state>>
       ELSE IF stored_token # None
       THEN /\ oauthPc' = "done"
            /\ access_token' = stored_token
            /\ UNCHANGED <<oauth_flows, oauth_state>>
       ELSE /\ oauth_flows' = oauth_flows + 1
            /\ UNCHANGED access_token
            /\ IF ~authConfig.base_url \/ ~authConfig.client_id
               THEN /\ oauthPc' = "done"
                    /\ UNCHANGED oauth_state
               ELSE /\ oauth_state' = generated
                    /\ oauthPc' = IF bind_ok THEN "waiting" ELSE "done"
    /\ UNCHANGED <<authConfig, auth_code, received_state, stored_token,
                   token_requests, callbackArrives, token_reply>>
    /\ UNCHANGED <<chatVars, regVars, importVars, keyVars, stderrVars, mcpVars, httpVars, teardownVars>>

\* handle_request() returns: the one request was served (do_GET stores the
\* code and the state of the query), the listener is closed and line 177
\* decides whether the token is asked for.
Callback(request) ==
    /\ oauthPc = "waiting"
    /\ callbackArrives
    /\ LET code == IF request.get THEN request.code ELSE auth_code
           received == IF request.get THEN request.state ELSE received_state
       IN /\ auth_code' = code
          /\ received_state' = received
          /\ oauthPc' = IF CallbackAccepted(code, received, oauth_state)
                        THEN "exchange" ELSE "done"
    /\ UNCHANGED <<authConfig, oauth_state, access_token, stored_token,
                   token_requests, callbackArrives, oauth_flows, token_reply>>
    /\ UNCHANGED <<chatVars, regVars, importVars, keyVars, stderrVars, mcpVars, httpVars, teardownVars>>

\* The POST to the token endpoint and the handling of its answer.
TokenExchange(reply) ==
    /\ oauthPc = "exchange"
    /\ token_requests' =
          Append(token_requests, TokenRequest(auth_code, authConfig.client_secret))
    /\ token_reply' = reply
    /\ IF TokenGranted(reply)
       THEN /\ access_token' = "token"
            /\ stored_token' = "token"
       ELSE UNCHANGED <<access_token, stored_token>>
    /\ oauthPc' = "done"
    /\ UNCHANGED <<authConfig, oauth_state, auth_code, received_state,
                   callbackArrives, oauth_flows>>
    /\ UNCHANGED <<chatVars, regVars, importVars, keyVars, stderrVars, mcpVars, httpVars, teardownVars>>

\* A client about to be constructed.
AuthInit ==
    /\ authConfig \in AuthConfigs
    /\ oauthPc = "init"
    /\ oauth_state = ""
    /\ auth_code = None
    /\ received_state = None
    /\ access_token = None
    /\ stored_token \in {None, "saved"}
    /\ token_requests = << >>
    /\ callbackArrives \in BOOLEAN
    /\ oauth_flows = 0
    /\ token_reply = "none"

\* A constructed client of a server that does not authenticate.
AuthDone ==
    /\ authConfig = [jira |-> FALSE, client_id |-> FALSE, base_url |-> TRUE,
                     client_secret |-> FALSE]
    /\ oauthPc = "done"
    /\ oauth_state = ""
    /\ auth_code = None
    /\ received_state = None
    /\ access_token = None
    /\ stored_token = None
    /\ token_requests = << >>
    /\ callbackArrives = FALSE
    /\ oauth_flows = 0
    /\ token_reply = "none"

(***************************************************************************)
(* MCPClient.shutdown and the exit of the process that owns the client.    *)
(***************************************************************************)
\* The child is started with preexec_fn=os.setsid, so it leads a process
\* group of its own; what it starts (npx starts node) is a member of it.
Leader == 0
Group == 0..MaxMembers

\* How the owning process can come to its end.
ExitPaths == {"return", "sys_exit", "exception", "keyboard_interrupt",
              "sigterm", "sigkill", "os_exit"}

\* atexit.register(self.shutdown), line 277: the interpreter runs the
\* registered functions when it terminates normally (main returns, sys.exit,
\* an uncaught exception, KeyboardInterrupt), and does not when the process
\* is ended by a signal it does not handle or by os._exit.  The program
\* installs no signal handler.
RunsAtexit(path) ==
    path \in {"return", "sys_exit", "exception", "keyboard_interrupt"}

\* A process of the group ends by itself.
ProcessExits(p) ==
    /\ proc[p] = "alive"
    /\ proc' = [proc EXCEPT ![p] = "exited"]
    /\ UNCHANGED <<owner, exit_path, heeds, signalled, wait_result, signals_sent>>
    /\ UNCHANGED <<chatVars, regVars, importVars, keyVars, stderrVars, mcpVars, authVars, httpVars>>

\* The owning process starts to exit.
OwnerExits(path) ==
    /\ owner = "running"
    /\ exit_path' = path
    /\ owner' = IF RunsAtexit(path) THEN "atexit" ELSE "gone"
    /\ UNCHANGED <<proc, heeds, signalled, wait_result, signals_sent>>
    /\ UNCHANGED <<chatVars, regVars, importVars, keyVars, stderrVars, mcpVars, authVars, httpVars>>

\* The body of MCPClient.shutdown: when the child has not exited, SIGTERM to
\* its process group and a wait of five seconds for the child.
ShutdownBody ==
    /\ IF proc[Leader] = "alive"
       THEN /\ signalled' = TRUE
            /\ signals_sent' = signals_sent + 1
            /\ proc' = [p \in Group |-> IF heeds[p] THEN "exited" ELSE proc[p]]
            /\ wait_result' = IF heeds[Leader] THEN "exited" ELSE "timeout"
       ELSE UNCHANGED <<signalled, signals_sent, proc, wait_result>>
    /\ UNCHANGED <<exit_path, heeds>>

\* MCPClient.shutdown, run by atexit.
Shutdown ==
    /\ owner = "atexit"
    /\ ShutdownBody
    /\ owner' = "gone"
    /\ UNCHANGED <<chatVars, regVars, importVars, keyVars, stderrVars, mcpVars, authVars, httpVars>>

\* MCPClient.shutdown, called on the client while the owner is running.
ShutdownCalled ==
    /\ owner = "running"
    /\ signals_sent < MaxSignals
    /\ ShutdownBody
    /\ UNCHANGED owner
    /\ UNCHANGED <<chatVars, regVars, importVars, keyVars, stderrVars, mcpVars, authVars, httpVars>>

\* A client whose child has just been started.
TeardownInit ==
    /\ owner = "running"
    /\ exit_path = "none"
    /\ proc = [p \in Group |-> "alive"]
    /\ heeds \in [Group -> BOOLEAN]
    /\ signalled = FALSE
    /\ wait_result = "none"
    /\ signals_sent = 0

\* The owning process is running and stays so.
TeardownIdle ==
    /\ owner = "running"
    /\ exit_path = "none"
    /\ proc = [p \in Group |-> "alive"]
    /\ heeds = [p \in Group |-> TRUE]
    /\ signalled = FALSE
    /\ wait_result = "none"
    /\ signals_sent = 0

(***************************************************************************)
(* MCPClient on the HTTP transport: every request is one POST, a streaming *)
(* call one POST whose body is read as server-sent events.                 *)
(***************************************************************************)
\* config['request_headers'], when the configuration has any.
NoHeaders == [h \in {} |-> ""]
ConfiguredHeaders == {NoHeaders, [h \in {"X-Api-Version"} |-> "1"]}

\* dict.update
Update(d, more) ==
    [k \in DOMAIN d \cup DOMAIN more |-> IF k \in DOMAIN more THEN more[k] ELSE d[k]]

\* The headers of _http_request, lines 364-371.
RequestHeaders(configured) ==
    Update([h \in {"Content-Type", "Accept"} |-> "application/json"], configured)

\* The headers of _http_streaming_request, lines 507-510.
StreamingHeaders ==
    [h \in {"Content-Type", "Accept"} |->
        IF h = "Accept" THEN "text/event-stream" ELSE "application/json"]

\* Whether headers carry the token as a bearer token.
HasBearer(headers, token) ==
    /\ "Authorization" \in DOMAIN headers
    /\ headers["Authorization"] = <<"Bearer", token>>

\* One POST as the server saw it and answered it; events is the body of a
\* streaming answer.
Post(streaming, headers, status, events) ==
    [streaming |-> streaming, headers |-> headers, status |-> status,
     events |-> events]

\* The server-sent events of a streaming answer: partial and final events (a
\* final one has a result with text items, a result without any, or an empty
\* result), the [DONE] marker, and data that is not JSON.
Event(kind, parts, has_result) ==
    [kind |-> kind, parts |-> parts, has_result |-> has_result]

\* The first k partial events of a stream.
Partials(k) == [i \in 1..k |-> Event("partial", <<PartialText(i)>>, TRUE)]

\* How a body ends: a final event (with text, without text, with an empty
\* result), the [DONE] marker, or nothing more.
Endings == {<<Event("final", <<"Result">>, TRUE)>>, <<Event("final", << >>, TRUE)>>,
            <<Event("final", << >>, FALSE)>>, <<Event("done", << >>, FALSE)>>,
            << >>}

\* The bodies of a streaming answer: some partial events, possibly a line
\* that is not JSON, an ending, possibly an event after the ending.
HttpBodies ==
    {Partials(k) \o g \o ending \o late :
        k \in 0..MaxPartials,
        g \in {<< >>, <<Event("garbage", << >>, FALSE)>>},
        ending \in Endings,
        late \in {<< >>, <<Event("partial", <<"late">>, TRUE)>>}}

\* The answers to a non-streaming POST: a JSON-RPC response of status 200,
\* an error status (401 among them), a timeout, a failed connection.
HttpReplies(id) ==
    {[status |-> "200", line |-> Line(k, id, IF k = "result_text" THEN <<"Result">> ELSE << >>)] :
        k \in {"tools", "result_text", "result_plain", "is_error", "error"}}
    \cup {[status |-> st, line |-> Line("error", 0, << >>)] : st \in {"401", "500", "timeout", "refused"}}

AllHttpReplies == UNION {HttpReplies(id) : id \in 1..MaxRequests}

\* The answers to a streaming POST: a body of events, or a failure.
HttpStreamReplies ==
    {[status |-> "200", events |-> ev] : ev \in HttpBodies}
    \cup {[status |-> st, events |-> << >>] : st \in {"401", "500", "timeout", "refused"}}

\* _http_streaming_request, lines 531-533: a non-empty result replaces the
\* accumulated fragments by its text items.
HttpFinalContent(acc, event) == IF event.has_result THEN event.parts ELSE acc

\* The loop over the events, giving nothing unless a final event ends it.
RECURSIVE HttpStreamContentOrNothing(_, _)
HttpStreamContentOrNothing(events, acc) ==
    IF events = << >> THEN << >>
    ELSE LET event == Head(events) IN
         IF event.kind = "done" THEN << >>
         ELSE IF event.kind = "partial"
         THEN HttpStreamContentOrNothing(Tail(events), acc \o event.parts)
         ELSE IF event.kind = "final" THEN HttpFinalContent(acc, event)
         ELSE HttpStreamContentOrNothing(Tail(events), acc)

\* The loop over response.iter_lines(), lines 516-537.
RECURSIVE HttpStreamContent(_, _)
HttpStreamContent(events, acc) ==
    IF events = << >> THEN acc
    ELSE LET event == Head(events) IN
         IF event.kind = "done" THEN acc
         ELSE IF event.kind = "partial"
         THEN HttpStreamContent(Tail(events), acc \o event.parts)
         ELSE IF event.kind = "final" THEN HttpFinalContent(acc, event)
         ELSE HttpStreamContent(Tail(events), acc)

\* The while loop of _stdio_streaming_request, lines 466-499, over the lines
\* it reads: what full_response_content holds when the loop is left.
RECURSIVE StdioStreamContent(_, _)
StdioStreamContent(events, acc) ==
    IF events = << >> THEN acc
    ELSE LET event == Head(events) IN
         IF event.kind = "partial"
         THEN StdioStreamContent(Tail(events), acc \o event.parts)
         ELSE IF event.kind = "final" THEN FinalContent(acc, event.parts)
         ELSE StdioStreamContent(Tail(events), acc)

\* _http_request (one POST, no other attempt) and what list_tools or
\* execute_tool makes of its answer.
HttpRequest(t, reply) ==
    /\ transport = "http"
    /\ callers[t].pc = "lock"
    /\ callers[t].op \in {"list", "call"}
    /\ reply \in HttpReplies(callers[t].id)
    /\ httpSent' = [httpSent EXCEPT ![t] =
          Append(@, Post(FALSE, RequestHeaders(request_headers), reply.status, << >>))]
    /\ LET response_data == IF reply.status = "200" THEN reply.line
                            ELSE Line("error", 0, << >>)
       IN callers' = [callers EXCEPT
             ![t].pc = "done",
             ![t].outcome = IF callers[t].op = "list"
                            THEN ListToolsResult(response_data, callers[t].id)
                            ELSE ExecuteToolResult(response_data, callers[t].id)]
    /\ UNCHANGED <<transport, request_headers, executing>>
    /\ UNCHANGED <<lock, childIn, childOut, childAlive, childSilent, nextId,
                   linesWritten>>
    /\ UNCHANGED <<chatVars, regVars, importVars, keyVars, stderrVars, authVars, teardownVars>>

\* _http_streaming_request: one POST, its events read to the final one.
HttpStreamingRequest(t, reply) ==
    /\ transport = "http"
    /\ callers[t].pc = "lock"
    /\ callers[t].op = "stream"
    /\ httpSent' = [httpSent EXCEPT ![t] =
          Append(@, Post(TRUE, StreamingHeaders, reply.status, reply.events))]
    /\ callers' = [callers EXCEPT
          ![t].pc = "done",
          ![t].outcome =
              IF reply.status = "200"
              THEN Returned("text", Join(HttpStreamContent(reply.events, << >>)),
                            callers[t].id)
              ELSE Returned("error", << >>, 0)]
    /\ UNCHANGED <<transport, request_headers, executing>>
    /\ UNCHANGED <<lock, childIn, childOut, childAlive, childSilent, nextId,
                   linesWritten>>
    /\ UNCHANGED <<chatVars, regVars, importVars, keyVars, stderrVars, authVars, teardownVars>>

\* The client of a server reached through a child process.
HttpIdle ==
    /\ transport = "stdio"
    /\ request_headers = NoHeaders
    /\ executing = [t \in Threads |-> NoTool]
    /\ httpSent = [t \in Threads |-> << >>]

\* The client of a server reached over HTTP, holding a token or not, with or
\* without configured headers: there is no child process.
HttpClient ==
    /\ transport = "http"
    /\ request_headers \in ConfiguredHeaders
    /\ executing = [t \in Threads |-> NoTool]
    /\ httpSent = [t \in Threads |-> << >>]
    /\ callers = [t \in Threads |-> IdleCaller]
    /\ lock = "none"
    /\ childIn = << >>
    /\ childOut = << >>
    /\ childAlive = FALSE
    /\ childSilent = FALSE
    /\ nextId = 1
    /\ linesWritten = 0
    /\ access_token \in {None, "token"}
    /\ authConfig = [jira |-> access_token # None, client_id |-> access_token # None,
                     base_url |-> TRUE, client_secret |-> FALSE]
    /\ oauthPc = "done"
    /\ oauth_state = ""
    /\ auth_code = None
    /\ received_state = None
    /\ stored_token = access_token
    /\ token_requests = << >>
    /\ callbackArrives = FALSE
    /\ oauth_flows = 0
    /\ token_reply = "none"
    /\ TeardownIdle
    /\ KeyIdle
    /\ StderrIdle

\* Nothing else of the client is under way.
ExtraIdle == AuthDone /\ HttpIdle /\ TeardownIdle /\ KeyIdle /\ StderrIdle

(***************************************************************************)
(* Messages and results of the conversation loop.                          *)
(***************************************************************************)
Impls == {"handler", "integration"}

NoBody == [shape |-> "none", body |-> PyNone]

\* A plain text message (the user's prompt, or the stop-calling-tools notice).
TextMessage(what) == [kind |-> what, name |-> "", response |-> NoBody]

\* The next message is the user's text again, not the tool's response.
FunctionResponseDropped(name, d) == TextMessage("prompt")

\* [Part(function_response={'name': tool_name, 'response': d})]
FunctionResponse(name, d) == [kind |-> "function_response", name |-> name, response |-> d]

\* The dict handed back for a tool output: the output itself when it is a dict,
\* {"result": str(output)} otherwise.
WrapToolOutput(v) ==
    IF IsDict(v) THEN [shape |-> "value", body |-> v]
    ELSE [shape |-> "result", body |-> Str(v)]

\* {'error': error_msg}; the message starts with one of three fixed texts.
ErrorDict(msg) == [shape |-> "error", body |-> PyStr(msg)]

\* The model's answers, as far as chat looks at them: whether there is a
\* candidate, whether a part carries a function call, whether a part carries
\* text, and the finish reason.
CallResponses ==
    {[cand |-> TRUE, call |-> TRUE, name |-> n, args |-> a, text |-> tx, finish |-> "STOP"] :
        n \in ToolNames, a \in ArgBundles, tx \in BOOLEAN}

TextResponses ==
    {[cand |-> TRUE, call |-> FALSE, name |-> "", args |-> << >>, text |-> tx, finish |-> f] :
        tx \in BOOLEAN, f \in {"STOP", "MAX_TOKENS"}}

NoCandidates ==
    [cand |-> FALSE, call |-> FALSE, name |-> "", args |-> << >>, text |-> FALSE, finish |-> "NONE"]

ModelResponses == CallResponses \cup TextResponses \cup {NoCandidates}

\* send_message either answers or raises.
SendOutcomes == {[raised |-> FALSE, response |-> r] : r \in ModelResponses}
                \cup {[raised |-> TRUE, response |-> NoCandidates]}

\* The summary calls look only at whether there is a function call, not at
\* which one.
SummaryOutcomes == {o \in SendOutcomes :
                       o.response.call => (o.response.name = "echo"
                                           /\ o.response.args = << <<"a", 2>> >>)}

\* The prompts chat tells apart.
Prompts ==
    {[kind |-> k, tool |-> ""] : k \in {"empty", "help_usage", "tool_list", "text"}}
    \cup {[kind |-> "help", tool |-> n] : n \in {"job", "echo", "ghost"}}

\* What chat can hand to its caller.  "None" is Python's None (a bare return),
\* "exception" an exception that left chat.
ReturnsString(r) == r \notin {"unset", "None", "exception"}

\* An executor outcome: it returned a value, raised, was never run, or there
\* was no executor.
ExecReturned(name, v) == [status |-> "returned", name |-> name, value |-> v]
ExecRaised(name) == [status |-> "raised", name |-> name, value |-> PyNone]
ExecNotRun(name) == [status |-> "not_run", name |-> name, value |-> PyNone]
ExecAbsent(name) == [status |-> "absent", name |-> name, value |-> PyNone]
NoExec == [status |-> "none", name |-> "", value |-> PyNone]

\* What the executor itself does when called: returns some value or raises.
ExecBehaviours == {[raises |-> FALSE, value |-> v] : v \in ToolValues}
                  \cup {[raises |-> TRUE, value |-> PyNone]}

(***************************************************************************)
(* Loop control.                                                           *)
(***************************************************************************)
\* An off-by-one loop test: one more pass than the budget allows.
LoopGuardInclusive(count, max) == count <= max

\* while tool_call_count < max_tool_calls
LoopGuard(count, max) == count < max

\* A strict test after the loop: the summary call is skipped at the limit.
BudgetReachedStrict(count, max) == count > max

\* if tool_call_count >= max_tool_calls (after the loop)
BudgetReached(count, max) == count >= max

\* A strict threshold: the third identical request still goes through.
RepeatedTooOftenStrict(n) == n > 3

\* if repeated_call_count[tool_call_key] >= 3
RepeatedTooOften(n) == n >= 3

\* repeated_call_count.get(tool_call_key, 1)
DictGet(d, k, default) == IF k \in DOMAIN d THEN d[k] ELSE default

\* d[k] = v on a dict
DictSet(d, k, v) == [x \in DOMAIN d \cup {k} |-> IF x = k THEN v ELSE d[x]]

\* previous_tool_calls is only ever appended to and tested with "in": the
\* model keeps the bag of its elements.
ListAppend(b, x) == b (+) SetToBag({x})
ListContains(b, x) == BagIn(x, b)

(***************************************************************************)
(* Calling an executor.                                                    *)
(***************************************************************************)
\* hasattr(tool_instance, 'execute') and callable(tool_instance.execute)
HasExecute(ex) == ex.kind \in {"object_sync", "object_async"}

\* callable(tool_instance)
IsCallable(ex) == ex.kind \in {"function", "coroutine_function"}

\* Whether calling the executor yields a coroutine (async def).
IsAsync(ex) == ex.kind \in {"coroutine_function", "object_async"}

\* inspect.iscoroutinefunction(tool_instance)
IsCoroutineFunction(ex) == ex.kind = "coroutine_function"

PyCoroutine == [t |-> "coroutine", v |-> "<coroutine object>"]

\* f(**tool_args): a plain def runs its body; an async def only builds a coroutine.
PlainCall(ex, beh) ==
    IF IsAsync(ex) THEN [raises |-> FALSE, value |-> PyCoroutine] ELSE beh

\* await f(**tool_args): the coroutine of an async def runs its body; the
\* value of a plain def is not awaitable and await raises TypeError.
AwaitCall(ex, beh) ==
    IF IsAsync(ex) THEN beh
    ELSE IF beh.raises THEN beh
    ELSE [raises |-> TRUE, value |-> PyNone]

\* A tool call without its except clause: whatever came out is wrapped.
ToolResponseDictNoExcept(r, msg) == WrapToolOutput(r.value)

\* The try/except around one tool call: the dict for the model.
ToolResponseDict(r, msg) ==
    IF r.raises THEN ErrorDict(msg) ELSE WrapToolOutput(r.value)

\* GeminiChatHandler.chat, lines 315-353: tool_response_content_dict.
HandlerDispatch(ex, beh) ==
    IF HasExecute(ex)
    THEN ToolResponseDict(AwaitCall(ex, beh), "Error executing tool")
    ELSE IF IsCallable(ex)
    THEN ToolResponseDict(IF IsCoroutineFunction(ex) THEN AwaitCall(ex, beh)
                          ELSE PlainCall(ex, beh),
                          "Error executing callable tool")
    ELSE ErrorDict("Unknown or non-executable tool")

\* GoogleAIIntegration.chat, lines 533-554.
IntegrationDispatch(ex, beh) ==
    IF HasExecute(ex)
    THEN ToolResponseDict(PlainCall(ex, beh), "Error executing tool")
    ELSE ErrorDict("Unknown or non-executable tool")

\* Whether the loop calls into the executor at all, and whether its body runs.
Invokes(im, ex) == IF im = "handler" THEN HasExecute(ex) \/ IsCallable(ex) ELSE HasExecute(ex)
BodyRuns(im, ex) == Invokes(im, ex) /\ (im = "handler" \/ ~IsAsync(ex))

ExecOutcome(im, ex, name, beh) ==
    IF ex.kind = "none" THEN ExecAbsent(name)
    ELSE IF ~BodyRuns(im, ex) THEN ExecNotRun(name)
    ELSE IF beh.raises THEN ExecRaised(name)
    ELSE ExecReturned(name, beh.value)

(***************************************************************************)
(* The conversation loop.                                                  *)
(***************************************************************************)
\* Counter and repetition map kept from the invocation before, as attributes
\* of the object would be.
StaleLocals ==
    /\ UNCHANGED <<tool_call_count, previous_tool_calls, repeated_call_count>>
    /\ tool_name' = ""
    /\ tool_args' = << >>
    /\ modelCalls' = 0
    /\ lastSent' = TextMessage("nothing")
    /\ requestLog' = EmptyBag
    /\ execLog' = EmptyBag
    /\ lastExec' = NoExec

\* The locals of a chat invocation before the loop has assigned them.
FreshLocals ==
    /\ tool_call_count' = 0
    /\ previous_tool_calls' = EmptyBag
    /\ repeated_call_count' = << >>
    /\ tool_name' = ""
    /\ tool_args' = << >>
    /\ modelCalls' = 0
    /\ lastSent' = TextMessage("nothing")
    /\ requestLog' = EmptyBag
    /\ execLog' = EmptyBag
    /\ lastExec' = NoExec

\* chat returns r (or, with r = "exception", an exception leaves chat).
Return(r) ==
    /\ chatPc' = IF r = "exception" THEN "raised" ELSE "returned"
    /\ chatResult' = r

\* The prompts that reach the loop: the integration has no empty-prompt check
\* and no /tool list command.
EntersLoop(im, p) ==
    \/ p.kind = "text"
    \/ im = "integration" /\ p.kind \in {"empty", "tool_list"}

\* The prompts the handler does not answer before line 269 and the
\* integration does not answer before line 493.
ReachesLoop(im, p) ==
    /\ ~(im = "handler" /\ p.kind \in {"empty", "tool_list"})
    /\ p.kind \notin {"help", "help_usage"}

\* current_message_content = prompt: the first content sent is the prompt
\* itself.
PromptMessage(p) == TextMessage(IF p.kind = "text" THEN "prompt" ELSE p.kind)

\* chat(prompt, max_tool_calls) up to the loop: the empty prompt, /help and
\* /tool list are answered here.
ChatEntry(p, m, help_raises) ==
    /\ UNCHANGED <<importVars, discoveryVars, mcpVars, extraVars>>
    /\ max_tool_calls' = m
    /\ FreshLocals
    /\ current_message_content' =
          IF ReachesLoop(impl, p) THEN PromptMessage(p) ELSE current_message_content
    /\ callsAtMax' = IF EntersLoop(impl, p) /\ 0 >= m THEN 0 ELSE -1
    /\ UNCHANGED <<impl, tools>>
    /\ IF impl = "handler" /\ p.kind = "empty"
       THEN Return("None")
       ELSE IF p.kind = "help_usage"
       THEN Return("help_usage")
       ELSE IF p.kind = "help"
       THEN LET tool_instance == get_tool_instance(tools, p.tool) IN
            IF tool_instance.kind # "none" /\ tool_instance.has_help
            THEN IF help_raises THEN Return("exception") ELSE Return("help_text")
            ELSE Return("help_sorry")
       ELSE IF impl = "handler" /\ p.kind = "tool_list"
       THEN Return("tool_list")
       ELSE /\ chatPc' = "loop"
            /\ chatResult' = "unset"

\* The first chat invocation on a handler object.
ChatStart(p, m, help_raises) ==
    /\ chatPc = "idle"
    /\ ChatEntry(p, m, help_raises)
    /\ UNCHANGED earlier

\* A further chat invocation on the same object, once the one before is over.
ChatAgain(p, m, help_raises) ==
    /\ chatPc \in {"returned", "raised"}
    /\ Len(earlier) < MaxChats - 1
    /\ ChatEntry(p, m, help_raises)
    /\ earlier' = Append(earlier, requestLog)

\* The text branch of the loop without its placeholders.
TextAnswerAsExtracted(im, r) == IF r.cand /\ r.text THEN "model_text" ELSE ""

\* The text branch of the loop (handler lines 357-367, integration 563-579).
TextAnswer(im, r) ==
    IF im = "handler" /\ ~r.cand THEN "apology"
    ELSE IF r.cand /\ r.text THEN "model_text"
    ELSE IF r.cand /\ r.finish = "STOP" THEN "placeholder_stop"
    ELSE "placeholder_finish"

\* One pass of the while loop up to the tool call: send the pending content,
\* look for a function call, count it, check for repetition.
LoopSend(o) ==
    /\ UNCHANGED <<importVars, discoveryVars, mcpVars, extraVars>>
    /\ chatPc = "loop"
    /\ LoopGuard(tool_call_count, max_tool_calls)
    /\ modelCalls' = modelCalls + 1
    /\ lastSent' = current_message_content
    /\ UNCHANGED <<impl, tools, max_tool_calls, current_message_content, execLog, lastExec,
                   earlier>>
    /\ IF o.raised
       THEN /\ Return("apology")
            /\ UNCHANGED <<tool_call_count, previous_tool_calls, repeated_call_count,
                           tool_name, tool_args, requestLog, callsAtMax>>
       ELSE LET r == o.response
                key == ToolCallKey(r.name, r.args)
                seen == ListContains(previous_tool_calls, key)
                bumped == DictSet(repeated_call_count, key,
                                  DictGet(repeated_call_count, key, 1) + 1)
                forced == impl = "handler" /\ seen /\ RepeatedTooOften(bumped[key])
            IN
            IF r.cand /\ r.call
            THEN /\ tool_call_count' = tool_call_count + 1
                 /\ tool_name' = r.name
                 /\ tool_args' = r.args
                 /\ requestLog' = ListAppend(requestLog, key)
                 /\ callsAtMax' = IF callsAtMax = -1 /\ tool_call_count + 1 >= max_tool_calls
                                  THEN modelCalls + 1 ELSE callsAtMax
                 /\ repeated_call_count' =
                        IF impl = "handler" /\ seen THEN bumped ELSE repeated_call_count
                 /\ previous_tool_calls' =
                        IF impl = "handler" /\ ~forced
                        THEN ListAppend(previous_tool_calls, key) ELSE previous_tool_calls
                 /\ chatPc' = IF forced THEN "forced" ELSE "dispatch"
                 /\ UNCHANGED chatResult
            ELSE /\ Return(TextAnswer(impl, r))
                 /\ UNCHANGED <<tool_call_count, previous_tool_calls, repeated_call_count,
                                tool_name, tool_args, requestLog, callsAtMax>>

\* The tool call of one pass: look the executor up, call it, build the
\* function response for the next model call.
Dispatch(beh) ==
    /\ UNCHANGED <<importVars, discoveryVars, mcpVars, extraVars>>
    /\ chatPc = "dispatch"
    /\ LET tool_instance == get_tool_instance(tools, tool_name)
           d == IF impl = "handler" THEN HandlerDispatch(tool_instance, beh)
                ELSE IntegrationDispatch(tool_instance, beh)
       IN /\ current_message_content' = FunctionResponse(tool_name, d)
          /\ lastExec' = ExecOutcome(impl, tool_instance, tool_name, beh)
          /\ execLog' = IF Invokes(impl, tool_instance)
                        THEN ListAppend(execLog, ToolCallKey(tool_name, tool_args))
                        ELSE execLog
    /\ chatPc' = "loop"
    /\ lastSent' = TextMessage("nothing")
    /\ UNCHANGED <<impl, tools, max_tool_calls, tool_call_count, previous_tool_calls,
                   repeated_call_count, tool_name, tool_args, chatResult, modelCalls,
                   requestLog, callsAtMax, earlier>>

\* _extract_text_from_response without its fallback texts.
ExtractTextOrNone(r) == IF r.cand /\ r.text THEN "summary_text" ELSE "None"

\* _extract_text_from_response
ExtractText(r) ==
    IF ~r.cand THEN "could_not_generate"
    ELSE IF r.text THEN "summary_text"
    ELSE "no_text_response"

\* The summary forced by repetition (handler lines 303-310).
ForcedSend(o) ==
    /\ UNCHANGED <<importVars, discoveryVars, mcpVars, extraVars>>
    /\ chatPc = "forced"
    /\ modelCalls' = modelCalls + 1
    /\ lastSent' = TextMessage("stop_calling_tools")
    /\ Return(IF o.raised THEN "apology" ELSE ExtractText(o.response))
    /\ UNCHANGED <<impl, tools, max_tool_calls, tool_call_count, previous_tool_calls,
                   repeated_call_count, current_message_content, tool_name, tool_args,
                   requestLog, execLog, lastExec, callsAtMax, earlier>>

\* The answer to the last send once the budget is spent
\* (handler lines 376-390, integration 591-614).
LimitAnswer(im, r) ==
    IF im = "handler" /\ ~r.cand THEN "apology"
    ELSE IF r.cand /\ r.text THEN "model_text"
    ELSE IF r.cand /\ r.call THEN "limit_wanted_call"
    ELSE "limit_no_summary"

\* After the while loop: with the budget spent, send the pending content once
\* more and return; otherwise fall through to the end of chat.
AfterLoop(o) ==
    /\ UNCHANGED <<importVars, discoveryVars, mcpVars, extraVars>>
    /\ chatPc = "loop"
    /\ ~LoopGuard(tool_call_count, max_tool_calls)
    /\ IF BudgetReached(tool_call_count, max_tool_calls)
       THEN /\ modelCalls' = modelCalls + 1
            /\ lastSent' = current_message_content
            /\ Return(IF o.raised THEN "apology" ELSE LimitAnswer(impl, o.response))
       ELSE /\ Return(IF impl = "handler" THEN "should_not_be_reached" ELSE "None")
            /\ UNCHANGED <<modelCalls, lastSent>>
    /\ UNCHANGED <<impl, tools, max_tool_calls, tool_call_count, previous_tool_calls,
                   repeated_call_count, current_message_content, tool_name, tool_args,
                   requestLog, execLog, lastExec, callsAtMax, earlier>>

ChatInit ==
    /\ impl \in Impls
    /\ chatPc = "idle"
    /\ max_tool_calls = 0
    /\ tool_call_count = 0
    /\ previous_tool_calls = EmptyBag
    /\ repeated_call_count = << >>
    /\ current_message_content = TextMessage("nothing")
    /\ tool_name = ""
    /\ tool_args = << >>
    /\ chatResult = "unset"
    /\ RegistryLoaded
    /\ modelCalls = 0
    /\ lastSent = TextMessage("nothing")
    /\ requestLog = EmptyBag
    /\ execLog = EmptyBag
    /\ lastExec = NoExec
    /\ callsAtMax = -1
    /\ earlier = << >>
    /\ ImportIdle
    /\ McpIdle
    /\ ExtraIdle

ChatNext ==
    \/ \E p \in Prompts, m \in -1..MaxBudget, h \in BOOLEAN : ChatStart(p, m, h)
    \/ \E o \in SendOutcomes : LoopSend(o)
    \/ \E beh \in ExecBehaviours : Dispatch(beh)
    \/ \E o \in SummaryOutcomes : ForcedSend(o)
    \/ \E o \in SummaryOutcomes : AfterLoop(o)

ChatSpec == ChatInit /\ [][ChatNext]_vars

\* Every model call and every tool execution returns: chat, once called,
\* keeps running.
FairChatSpec == ChatSpec /\ WF_vars(ChatNext)

\* Several invocations on one object.  The model asks for one tool, with the
\* same arguments or others, or answers in text, or the call fails.
SessionOutcomes ==
    {o \in SendOutcomes :
        /\ o.response.call => (o.response.name = "echo" /\ ~o.response.text
                               /\ o.response.args \in {<< <<"a", 1>>, <<"b", 2>> >>,
                                                        << <<"a", 2>> >>})
        /\ (o.response.cand /\ ~o.response.call) =>
               (o.response.text /\ o.response.finish = "STOP")}

SessionPrompts == {p \in Prompts : p.kind \in {"text", "help_usage"}}

SessionNext ==
    \/ \E p \in SessionPrompts, m \in 0..MaxSessionBudget : ChatStart(p, m, FALSE)
    \/ \E p \in SessionPrompts, m \in 0..MaxSessionBudget : ChatAgain(p, m, FALSE)
    \/ \E o \in SessionOutcomes : LoopSend(o)
    \/ \E beh \in ExecBehaviours : Dispatch(beh)
    \/ \E o \in SessionOutcomes : ForcedSend(o)
    \/ \E o \in SessionOutcomes : AfterLoop(o)

SessionSpec == ChatInit /\ [][SessionNext]_vars

(***************************************************************************)
(* Properties of the conversation loop.                                    *)
(***************************************************************************)
Registered(k) == k[1] \in DOMAIN tools

Min(a, b) == IF a <= b THEN a ELSE b

\* The request being dispatched right now has not reached its executor yet.
Pending(k) == IF chatPc = "dispatch" /\ k = ToolCallKey(tool_name, tool_args) THEN 1 ELSE 0

\* C1: within one GeminiChatHandler.chat invocation, requests with the same key
\* (tool name plus arguments serialized with sorted keys) are dispatched at most
\* twice: the first and the second occurrence reach the executor, the third
\* does not and forces the final summary, whatever lies between them.
C1_RepeatDispatchedAtMostTwice ==
    impl = "handler" =>
        \A k \in BagToSet(requestLog) :
            /\ CopiesIn(k, execLog) <= 2
            /\ CopiesIn(k, requestLog) <= 3
            /\ Registered(k) =>
                 CopiesIn(k, execLog) + Pending(k) = Min(CopiesIn(k, requestLog), 2)
            /\ CopiesIn(k, requestLog) = 3 =>
                 /\ chatPc \in {"forced", "returned"}
                 /\ chatPc = "returned" => chatResult \in
                        {"summary_text", "no_text_response", "could_not_generate", "apology"}

\* A third occurrence that is not consecutive: another request lies between.
C1_Witness ==
    /\ impl = "handler"
    /\ chatPc = "forced"
    /\ BagCardinality(requestLog) = 4
    /\ \E k \in BagToSet(requestLog) :
          CopiesIn(k, requestLog) = 3 /\ CopiesIn(k, execLog) = 2

\* C2: the number of tool dispatches of one chat invocation never exceeds
\* max_tool_calls (a budget below zero allows none).
C2_DispatchesWithinBudget ==
    /\ BagCardinality(execLog) <= (IF max_tool_calls >= 0 THEN max_tool_calls ELSE 0)
    /\ tool_call_count <= (IF max_tool_calls >= 0 THEN max_tool_calls ELSE 0)

C2_Witness ==
    /\ max_tool_calls >= 2
    /\ BagCardinality(execLog) = max_tool_calls
    /\ chatPc = "loop"

\* C3: once the tool-call counter has reached max_tool_calls, chat makes exactly
\* one more model call and then returns: never a second one, and it never
\* returns without that one.
C3_OneCallAfterBudget ==
    callsAtMax >= 0 =>
        /\ modelCalls - callsAtMax <= 1
        /\ chatPc # "raised"
        /\ chatPc = "returned" => modelCalls - callsAtMax = 1

C3_Witness ==
    /\ chatPc = "returned"
    /\ max_tool_calls >= 2
    /\ tool_call_count = max_tool_calls
    /\ callsAtMax = max_tool_calls
    /\ modelCalls = callsAtMax + 1

\* C4: for every executor found in the registry that returns a value v without
\* raising, the next model call carries v itself when v is a mapping and
\* {result: str(v)} otherwise; an error-shaped payload is sent only when the
\* executor raised or none was found.
C4_ReturnedValueIsForwarded ==
    impl = "handler" =>
        /\ (chatPc = "loop" /\ lastExec.status = "returned") =>
              current_message_content =
                  FunctionResponse(lastExec.name, WrapToolOutput(lastExec.value))
        /\ (lastSent.kind = "function_response" /\ lastExec.status = "returned") =>
              lastSent = FunctionResponse(lastExec.name, WrapToolOutput(lastExec.value))
        /\ (lastSent.kind = "function_response" /\ lastSent.response.shape = "error") =>
              lastExec.status \in {"raised", "absent"}

\* C5: an exception raised by a tool executor is caught at the dispatch: chat
\* goes on, the next model call carries {error: message} for that tool, and the
\* failed call is counted.
C5_ExecutorErrorIsForwarded ==
    /\ (chatPc = "loop" /\ lastExec.status = "raised") =>
          /\ current_message_content.kind = "function_response"
          /\ current_message_content.name = lastExec.name
          /\ current_message_content.response.shape = "error"
          /\ chatResult = "unset"
          /\ tool_call_count = BagCardinality(requestLog)
          /\ BagCardinality(execLog) <= tool_call_count
    /\ (lastSent.kind = "function_response" /\ lastExec.status = "raised") =>
          /\ lastSent.name = lastExec.name
          /\ lastSent.response.shape = "error"
          /\ modelCalls >= 2

\* The executor raised, the model was told, and it asked for another tool.
C5_Witness ==
    /\ lastExec.status = "raised"
    /\ lastSent.kind = "function_response"
    /\ lastSent.response.shape = "error"
    /\ chatPc = "dispatch"

\* C6: chat never lets an exception reach its caller: after any failure of the
\* model, of response parsing, of registry lookup or of tool-metadata access
\* (the /help and /tool list paths included) it returns a string.
C6_NoExceptionLeavesChat ==
    /\ chatPc # "raised"
    /\ chatResult # "exception"

(***************************************************************************)
(* Import of a remote tool's parameter schema.                             *)
(***************************************************************************)
\* The loop has gone over to the final summary: by repetition, or because
\* the budget is spent.
SummaryForced ==
    \/ chatPc = "forced"
    \/ chatPc = "loop" /\ BudgetReached(tool_call_count, max_tool_calls)

\* C19: once the loop has gone over to the forced final summary, by
\* repetition or by budget exhaustion, no tool is dispatched for the rest of
\* the chat invocation, whatever the summary response contains, and chat
\* returns text: the next step is the return of a string, and nothing
\* follows it.
C19_NoDispatchAfterForcedSummary ==
    /\ [][SummaryForced =>
            /\ execLog' = execLog
            /\ chatPc' = "returned"
            /\ ReturnsString(chatResult')]_vars
    /\ [][chatPc # "returned"]_vars

\* The budget was spent after two dispatches and the summary response asked
\* for a tool again.
C19_Witness ==
    /\ impl = "handler"
    /\ chatPc = "returned"
    /\ chatResult = "limit_wanted_call"
    /\ BagCardinality(execLog) = max_tool_calls
    /\ max_tool_calls = 2

\* C22: when a model response contains a tool call, the counter is
\* incremented first and, if it has then reached the maximum, the loop goes
\* over to the forced final summary; the tool is looked up and dispatched only
\* otherwise, so the request that brings the counter to the maximum is not
\* dispatched and fewer tools than the maximum are dispatched.
C22_BudgetCheckedBeforeDispatch ==
    impl = "handler" =>
        /\ chatPc = "dispatch" => ~BudgetReached(tool_call_count, max_tool_calls)
        /\ max_tool_calls > 0 => BagCardinality(execLog) < max_tool_calls

\* C23: the one model call of the forced final summary carries an explicit
\* instruction to stop calling tools, when the summary is forced by repetition
\* and when it is forced by the budget: the last message sent before chat
\* returns from a forced summary is that instruction.
C23_SummaryCallSaysNoMoreTools ==
    (/\ impl = "handler"
     /\ chatPc = "returned"
     /\ tool_call_count >= 1
     /\ callsAtMax >= 0
     /\ modelCalls > callsAtMax)
        => lastSent = TextMessage("stop_calling_tools")

\* C27: when a model response of the loop contains no tool call (the send
\* adds no request to the log), chat returns at once: with the response's
\* text, or with a diagnostic placeholder when there is none, never with an
\* empty string; no dispatch is made, and no model call follows.
C27_TextResponseEndsChat ==
    /\ [][(/\ chatPc = "loop"
           /\ LoopGuard(tool_call_count, max_tool_calls)
           /\ modelCalls' # modelCalls
           /\ requestLog' = requestLog)
             => /\ chatPc' = "returned"
                /\ chatResult' \in {"model_text", "placeholder_stop",
                                    "placeholder_finish", "apology"}
                /\ modelCalls' = modelCalls + 1
                /\ execLog' = execLog]_vars
    /\ [][chatPc = "returned" => modelCalls' = modelCalls /\ execLog' = execLog]_vars

\* After one dispatch the model answered without text and without a tool
\* call, and the handler returned the placeholder.
C27_Witness ==
    /\ impl = "handler"
    /\ chatPc = "returned"
    /\ chatResult = "placeholder_stop"
    /\ modelCalls = 2
    /\ BagCardinality(execLog) = 1
    /\ max_tool_calls = 3

\* C24: within one chat invocation model calls and tool dispatches strictly
\* alternate.  A dispatch is made only for the request of the last model
\* response, one at a time, and it is over, its response dict wrapped in a
\* function response, before the next model call; a model call of the loop
\* sends exactly the pending content, so the very next one carries that
\* function response; and there is at most one dispatch per model response.
C24_CallsAndDispatchesAlternate ==
    /\ [][execLog' # execLog =>
            /\ chatPc = "dispatch"
            /\ BagIn(ToolCallKey(tool_name, tool_args), requestLog)
            /\ execLog' = ListAppend(execLog, ToolCallKey(tool_name, tool_args))
            /\ modelCalls' = modelCalls]_vars
    /\ [][chatPc = "dispatch" =>
            /\ chatPc' = "loop"
            /\ modelCalls' = modelCalls
            /\ current_message_content'.kind = "function_response"
            /\ current_message_content'.name = tool_name]_vars
    /\ [][modelCalls' # modelCalls =>
            /\ modelCalls' = modelCalls + 1
            /\ chatPc \in {"loop", "forced"}
            /\ chatPc = "loop" => lastSent' = current_message_content]_vars
    /\ [](/\ BagCardinality(requestLog) <= modelCalls
          /\ BagCardinality(execLog) + (IF chatPc = "dispatch" THEN 1 ELSE 0)
                <= BagCardinality(requestLog))

\* The result of the first dispatch has been sent to the model, which asked
\* for a second tool; that one is about to be dispatched.
C24_Witness ==
    /\ chatPc = "dispatch"
    /\ modelCalls = 2
    /\ BagCardinality(execLog) = 1
    /\ lastExec.status = "returned"
    /\ lastSent = FunctionResponse(lastExec.name, WrapToolOutput(lastExec.value))

\* C25: the tool-call counter and the repetition map are created anew by
\* every chat invocation.  When an invocation starts after another one on the
\* same object the counter is 0 and the map and the list of seen keys are
\* empty, and at every moment they count the requests of the current
\* invocation only, whatever the earlier ones asked for.
C25_CountersFreshPerInvocation ==
    /\ [][Len(earlier') > Len(earlier) =>
            /\ tool_call_count' = 0
            /\ previous_tool_calls' = EmptyBag
            /\ repeated_call_count' = << >>]_vars
    /\ [](/\ tool_call_count = BagCardinality(requestLog)
          /\ previous_tool_calls \sqsubseteq requestLog
          /\ \A k \in DOMAIN repeated_call_count :
                repeated_call_count[k] = CopiesIn(k, requestLog))

\* The invocation before asked twice for a call; this one has asked for the
\* same call twice and both were dispatched.
C25_Witness ==
    /\ impl = "handler"
    /\ Len(earlier) = 1
    /\ chatPc = "loop"
    /\ tool_call_count = 2
    /\ \E k \in BagToSet(execLog) :
          /\ CopiesIn(k, earlier[1]) >= 2
          /\ CopiesIn(k, execLog) = 2
          /\ repeated_call_count[k] = 2

\* C35: when the model asks for a tool name that is not in the registry,
\* nothing is dispatched, the loop goes on with an error-shaped function
\* response for that name as the payload of the next model call, and the
\* request has been counted and entered in the repetition state like any other.
C35_UnknownToolIsReportedAndCounted ==
    /\ [](\A k \in BagToSet(execLog) : k[1] \in DOMAIN tools)
    /\ [][(chatPc = "dispatch" /\ tool_name \notin DOMAIN tools) =>
            /\ execLog' = execLog
            /\ chatPc' = "loop"
            /\ lastExec' = ExecAbsent(tool_name)
            /\ current_message_content' =
                  FunctionResponse(tool_name, ErrorDict("Unknown or non-executable tool"))]_vars
    /\ []((chatPc = "loop" /\ lastExec.status = "absent") =>
            /\ chatResult = "unset"
            /\ current_message_content.response.shape = "error"
            /\ current_message_content.name = lastExec.name
            /\ tool_call_count = BagCardinality(requestLog)
            /\ BagIn(ToolCallKey(tool_name, tool_args), requestLog)
            /\ impl = "handler" =>
                  BagIn(ToolCallKey(tool_name, tool_args), previous_tool_calls))
    /\ []((lastSent.kind = "function_response" /\ lastExec.status = "absent") =>
            /\ lastSent.response.shape = "error"
            /\ lastSent.name = lastExec.name)

\* The model asked twice for the same unknown tool: both requests were
\* counted, the second one as a repetition, and nothing was run.
C35_Witness ==
    /\ impl = "handler"
    /\ chatPc = "loop"
    /\ lastExec = ExecAbsent("ghost")
    /\ tool_call_count = 2
    /\ modelCalls = 2
    /\ execLog = EmptyBag
    /\ repeated_call_count[ToolCallKey(tool_name, tool_args)] = 2
    /\ current_message_content.response.shape = "error"

\* C36: chat hands a text string to its caller for every prompt; for an empty
\* or whitespace-only prompt it does so without a model call or a dispatch.
C36_ChatReturnsText ==
    (impl = "handler" /\ chatPc = "returned") =>
        /\ ReturnsString(chatResult)
        /\ modelCalls = 0 => execLog = EmptyBag

\* C37: every chat invocation terminates when each model call and each tool
\* execution returns, after at most max(max_tool_calls, 0) + 1 model calls.
C37_ChatTerminates ==
    /\ [](modelCalls <= (IF max_tool_calls > 0 THEN max_tool_calls ELSE 0) + 1)
    /\ (chatPc \in {"loop", "dispatch", "forced"}) ~> (chatPc \in {"returned", "raised"})

\* The model asked for a tool in every answer of the loop: the budget of three
\* was used up and the fourth model call ended the invocation.
C37_Witness ==
    /\ chatPc = "returned"
    /\ max_tool_calls = 3
    /\ modelCalls = 4
    /\ BagCardinality(requestLog) = 3

\* The prompts that are local commands, and the answers chat gives to them.
CommandPrompts == {"help", "help_usage", "tool_list"}
CommandAnswers == {"help_text", "help_sorry", "help_usage", "tool_list"}

\* C16: a prompt that starts with /help or equals /tool list is answered
\* before the loop starts: it is never sent to the model, and no model call
\* and no tool dispatch is made for it and the tool-call counter and the
\* repetition state stay as they were.
C16_CommandsAnsweredLocally ==
    /\ lastSent.kind \notin CommandPrompts
    /\ (current_message_content.kind \in CommandPrompts
           \/ chatResult \in CommandAnswers) =>
          /\ modelCalls = 0
          /\ execLog = EmptyBag
          /\ requestLog = EmptyBag
          /\ tool_call_count = 0
          /\ previous_tool_calls = EmptyBag
          /\ repeated_call_count = << >>

ChatIdle ==
    /\ impl = "handler"
    /\ chatPc = "idle"
    /\ max_tool_calls = 0
    /\ tool_call_count = 0
    /\ previous_tool_calls = EmptyBag
    /\ repeated_call_count = << >>
    /\ current_message_content = TextMessage("nothing")
    /\ tool_name = ""
    /\ tool_args = << >>
    /\ chatResult = "unset"
    /\ modelCalls = 0
    /\ lastSent = TextMessage("nothing")
    /\ requestLog = EmptyBag
    /\ execLog = EmptyBag
    /\ lastExec = NoExec
    /\ callsAtMax = -1
    /\ earlier = << >>

ImportSpecInit ==
    /\ ImportInit
    /\ ChatIdle
    /\ RegistryInit
    /\ McpIdle
    /\ ExtraIdle

ImportNext == Declare

ImportSpec == ImportSpecInit /\ [][ImportNext]_vars

\* The schema keywords the model's function-calling format rejects.
ForbiddenKeys == {"minimum", "maximum", "default", "format", "nullable",
                  "additionalProperties", "$schema"}

\* C10: the parameter schema of a declaration imported from a remote server
\* contains none of the keys minimum, maximum, default, format, nullable,
\* additionalProperties, $schema at any nesting depth, whatever structure they
\* were nested under.
C10_NoForbiddenKeyAtAnyDepth ==
    importPc = "declared" => ~HasKeyDeep(Dict(parameters), ForbiddenKeys)

(***************************************************************************)
(* Discovery of the remote tools by the tool manager.                      *)
(***************************************************************************)
RegistrySpecInit ==
    /\ RegistryInit
    /\ ChatIdle
    /\ ImportIdle
    /\ McpIdle
    /\ ExtraIdle

RegistryNext ==
    \/ \E answers \in Answers : GetAllToolDefinitions(answers)
    \/ \E answers \in Answers : GetAllTools(answers)

RegistrySpec == RegistrySpecInit /\ [][RegistryNext]_vars

\* The positions of the registrations of a name.
RegistrationsOf(name) == {i \in 1..Len(registered) : registered[i].name = name}

Max(S) == CHOOSE x \in S : \A y \in S : y <= x

\* C9: once discovery has run, every tool name that was registered twice (a
\* local and a remote tool, or two remote tools) resolves through
\* get_tool_instance to the executor registered last, and a collision warning
\* was recorded for that name; discovery itself returned normally.
C9_LastRegisteredWins ==
    remote_tools_loaded =>
        /\ returned \in {"definitions", "no_definitions", "tools"}
        /\ \A i \in 1..Len(registered) :
              Cardinality(RegistrationsOf(registered[i].name)) >= 2 =>
                 /\ get_tool_instance(tools, registered[i].name)
                       = registered[Max(RegistrationsOf(registered[i].name))].executor
                 /\ \E w \in warnings : /\ w.kind = "collision"
                                        /\ w.name = registered[i].name

\* A local tool was replaced by a remote one, and a remote tool of one server
\* by a different executor of another server.
C9_Witness ==
    /\ remote_tools_loaded
    /\ \E i, j \in RegistrationsOf("echo") :
          /\ i < j
          /\ registered[i].executor.server = ""
          /\ registered[j].executor.server # ""
    /\ \E i, j \in RegistrationsOf("lookup") :
          /\ i < j
          /\ registered[i].executor.server = "srv1"
          /\ registered[j].executor.server = "srv2"
          /\ registered[i].executor # registered[j].executor

\* C15: remote discovery happens once per connection: list_tools is called
\* on a connection at most once, during the first get_all_tool_definitions or
\* get_all_tools call, and once the tools are loaded a later call makes no
\* list_tools call and leaves the declarations and the executors as they are.
C15_DiscoveryHappensOnce ==
    /\ [](\A sv \in ServerSet : list_tools_calls[sv] <= 1)
    /\ [](get_calls >= 1 => NothingToLoad(remote_tools_loaded, mcp_clients))
    /\ [](\A sv \in ServerSet :
            list_tools_calls[sv] = 1
               <=> (get_calls >= 1 /\ \E i \in 1..Len(mcp_clients) : mcp_clients[i] = sv))
    /\ [][remote_tools_loaded =>
            UNCHANGED <<list_tools_calls, function_declarations, tools>>]_vars

\* Three calls have been made on a manager with two clients whose first call
\* added remote declarations.
C15_Witness ==
    /\ get_calls = 3
    /\ remote_tools_loaded
    /\ Len(mcp_clients) = 2
    /\ Len(function_declarations) > Len(LocalDeclarations)
    /\ \A sv \in ServerSet : list_tools_calls[sv] = 1

\* C33: tool declaration names are unique: after discovery the declaration
\* list holds exactly one declaration for every registered tool name, and it
\* is the declaration of the executor registered under that name, also after
\* a local/remote or a remote/remote collision.
C33_DeclarationNamesUnique ==
    remote_tools_loaded =>
        /\ \A i, j \in 1..Len(function_declarations) :
              function_declarations[i].name = function_declarations[j].name => i = j
        /\ \A n \in DOMAIN tools :
              \E i \in 1..Len(function_declarations) :
                 /\ function_declarations[i].name = n
                 /\ function_declarations[i].origin =
                       (IF tools[n].server = "" THEN "local" ELSE tools[n].server)

\* C38: a failure of one server (no client, a failing list_tools, a malformed
\* tool definition) leaves the local tools registered, and every declaration
\* that was added has an executor registered under its name.
C38_ServerFailureIsConfined ==
    remote_tools_loaded =>
        /\ \A n \in DOMAIN LocalRegistry : n \in DOMAIN tools
        /\ \A i \in 1..Len(function_declarations) :
              function_declarations[i].name \in DOMAIN tools

(***************************************************************************)
(* Requests of several threads on one stdio connection.                    *)
(***************************************************************************)
McpInit ==
    /\ \/ McpStarted /\ childSilent \in BOOLEAN /\ ExtraIdle
       \/ HttpClient
    /\ ChatIdle
    /\ RegistryLoaded
    /\ ImportIdle

McpNext ==
    \/ \E t \in Threads : ListTools(t)
    \/ \E t \in Threads, ex \in RemoteExecutors : RemoteExecute(t, ex)
    \/ \E t \in Threads : Acquire(t)
    \/ \E t \in Threads : SelectTimeout(t)
    \/ \E t \in Threads : ReadResponse(t)
    \/ \E t \in Threads : StreamRead(t)
    \/ \E t \in Threads : Finish(t)
    \/ \E kind \in {"tools", "error", "result_text", "result_plain", "is_error",
                    "partial", "final", "final_without_text"} : ChildWrite(kind)
    \/ ChildGarbage
    \/ ChildExit
    \/ \E t \in Threads, reply \in AllHttpReplies : HttpRequest(t, reply)
    \/ \E t \in Threads, reply \in HttpStreamReplies : HttpStreamingRequest(t, reply)

McpSpec == McpInit /\ [][McpNext]_vars

\* Every thread that can take a step of its call eventually takes it: a
\* thread waiting for the lock gets it when it stays free, a select whose
\* timeout has come returns, a readable line is read.
McpFairness ==
    \A t \in Threads :
        /\ WF_vars(Acquire(t))
        /\ WF_vars(SelectTimeout(t))
        /\ WF_vars(ReadResponse(t))
        /\ WF_vars(StreamRead(t))

FairMcpSpec == McpInit /\ [][McpNext]_vars /\ McpFairness

\* A caller between the write of its request line and the end of its reads.
InFlight(t) == callers[t].pc \in {"select", "readline"}

\* The events are some partial events followed by one final event with text.
PartialsThenFinalWithText(events) ==
    /\ events # << >>
    /\ events[Len(events)].kind = "final"
    /\ events[Len(events)].parts # << >>
    /\ \A i \in 1..(Len(events) - 1) : events[i].kind = "partial"

\* C12: a streaming call whose events are partial events followed by a final
\* event with text fragments returns the final event's fragments only, on the
\* stdio and on the HTTP transport, and an executor of a tool advertised with
\* supportsStreaming=true always calls with streaming enabled.
C12_FinalOverridesPartials ==
    /\ [](\A t \in Threads :
            (executing[t] # NoTool /\ executing[t].streaming)
                => callers[t].op = "stream")
    /\ [](\A t \in Threads :
            (/\ transport = "http"
             /\ callers[t].pc = "done"
             /\ callers[t].op = "stream"
             /\ httpSent[t] # << >>
             /\ httpSent[t][1].status = "200"
             /\ PartialsThenFinalWithText(httpSent[t][1].events))
                => callers[t].outcome.text
                      = Join(httpSent[t][1].events[Len(httpSent[t][1].events)].parts))
    /\ [][\A t \in Threads :
            (/\ callers[t].pc = "readline"
             /\ childOut # << >>
             /\ Head(childOut).kind = "final"
             /\ Head(childOut).parts # << >>
             /\ callers'[t].pc = "done")
                => callers'[t].outcome.text = Join(Head(childOut).parts)]_vars

\* A streaming executor's call has read two partial events and a final one.
C12_Witness ==
    \E t \in Threads :
        /\ executing[t] # NoTool
        /\ executing[t].streaming
        /\ callers[t].pc = "done"
        /\ httpSent[t] # << >>
        /\ httpSent[t][1].events
              = Partials(2) \o <<Event("final", <<"Result">>, TRUE)>>
        /\ callers[t].outcome.text = <<"Result">>

\* C13: an HTTP request answered with 401 makes the client clear its token,
\* run the authorization flow again and send the request a second time, and
\* no more: the call ends after exactly two POSTs.
C13_UnauthorizedRetriedOnce ==
    \A t \in Threads :
        (/\ callers[t].pc = "done"
         /\ httpSent[t] # << >>
         /\ httpSent[t][1].status = "401")
            => /\ Len(httpSent[t]) = 2
               /\ oauth_flows >= 1

\* C14: on the stdio transport one request is in flight at a time: a caller
\* between its write and the end of its reads holds the lock, no caller
\* writes to the pipe unless it just took the free lock, nothing is read from
\* the pipe except by the holder, and a caller that is done, whatever its
\* outcome, no longer holds the lock.
C14_OneRequestInFlight ==
    /\ [](\A t \in Threads : InFlight(t) => lock = t)
    /\ [](\A t \in Threads : ~InFlight(t) => lock # t)
    /\ [][/\ Len(childIn') > Len(childIn) => (lock = "none" /\ lock' # "none")
          /\ Len(childOut') < Len(childOut) => lock # "none"]_vars

\* One caller waits for the lock while the other is reading its response, and
\* the first call of the connection ended with a timeout.
C14_Witness ==
    /\ InFlight("t1")
    /\ callers["t2"].pc = "lock"
    /\ nextId > 2
    /\ childIn # << >>

\* C20: every POST of a connection that holds an access token, streaming or
\* not, carries the token in a bearer-token header.
C20_TokenSentAsBearer ==
    \A t \in Threads : \A i \in 1..Len(httpSent[t]) :
        access_token # None => HasBearer(httpSent[t][i].headers, access_token)

\* C21: a transport-level failure during a tool call (a timeout, a refused
\* connection, a closed pipe, an undecodable response) is surfaced as a
\* failure: a call that ends without a value taken from a response of the
\* server ends in a raised exception, which the loop turns into an error
\* result, or in an error-shaped result.
C21_TransportFailureIsSurfaced ==
    \A t \in Threads :
        (/\ callers[t].pc = "done"
         /\ callers[t].op \in {"call", "stream"}
         /\ callers[t].outcome.from = 0)
            => \/ callers[t].outcome.status = "raised"
               \/ callers[t].outcome.shape = "error"

\* The events are one or more partial events followed by a final event that
\* carries no text fragment.
PartialsThenFinalWithoutText(events) ==
    /\ Len(events) >= 2
    /\ events[Len(events)].kind = "final"
    /\ events[Len(events)].parts = << >>
    /\ \A i \in 1..(Len(events) - 1) : events[i].kind = "partial"

\* C28: for a streaming call whose final event carries no text fragment, the
\* result is made of the text fragments of the partial events in arrival
\* order, and the HTTP transport returns what the stdio transport returns
\* for the same sequence of events.
C28_PartialsAreTheFallback ==
    \A t \in Threads :
        (/\ transport = "http"
         /\ callers[t].pc = "done"
         /\ callers[t].op = "stream"
         /\ httpSent[t] # << >>
         /\ httpSent[t][1].status = "200"
         /\ PartialsThenFinalWithoutText(httpSent[t][1].events))
            => LET events == httpSent[t][1].events
                   fragments == [i \in 1..(Len(events) - 1) |-> events[i].parts[1]]
               IN /\ callers[t].outcome.text = Join(fragments)
                  /\ callers[t].outcome.text
                        = Join(StdioStreamContent(events, << >>))

\* A stdio connection with its stderr reader: non-streaming and streaming
\* calls of two threads, a child that answers, stays silent for a while or
\* exits, and writes to its error stream whenever it likes.
StderrInit ==
    /\ McpStarted
    /\ childSilent = FALSE
    /\ ExtraIdle
    /\ ChatIdle
    /\ RegistryLoaded
    /\ ImportIdle

StderrNext ==
    \/ \E t \in Threads, ex \in RemoteExecutors : RemoteExecute(t, ex)
    \/ \E t \in Threads : Acquire(t)
    \/ \E t \in Threads : SelectTimeout(t)
    \/ \E t \in Threads : ReadResponse(t)
    \/ \E t \in Threads : StreamRead(t)
    \/ \E t \in Threads : Finish(t)
    \/ \E kind \in {"result_text", "partial", "final"} : ChildWrite(kind)
    \/ ChildExit
    \/ ChildWritesStderr
    \/ ReadStderr
    \/ StderrPrinted
    \/ StderrEnds

StderrSpec == StderrInit /\ [][StderrNext]_vars

\* C31: the stderr reader never acquires the request lock: its steps leave
\* the lock and the requests as they are, it can read a line whenever there
\* is one, also while a request holds the lock, and whatever the reader is
\* doing (reading, held up in its print, ended) a request can take the free
\* lock and read its response as soon as there is one.
C31_StderrReaderOutsideLock ==
    /\ [][(stderr_reader' # stderr_reader \/ stderr_pipe' < stderr_pipe)
             => UNCHANGED mcpVars]_vars
    /\ []((stderr_reader = "reading" /\ stderr_pipe > 0) => ENABLED ReadStderr)
    /\ [](\A t \in Threads :
            /\ (callers[t].pc = "lock" /\ lock = "none") => ENABLED Acquire(t)
            /\ (callers[t].pc = "select" /\ childOut # << >>) => ENABLED ReadResponse(t)
            /\ (callers[t].pc = "readline" /\ childOut # << >>) => ENABLED StreamRead(t))

\* The reader took a line while t1 held the lock and is still busy with a
\* line; t1's call has returned its result meanwhile and t2 holds the lock.
C31_Witness ==
    /\ "t1" \in drained_under
    /\ stderr_reader = "printing"
    /\ stderr_pipe > 0
    /\ callers["t1"].pc = "done"
    /\ callers["t1"].outcome.status = "returned"
    /\ callers["t1"].outcome.from = callers["t1"].id
    /\ lock = "t2"

\* C34: on the stdio transport a response that the child writes after its
\* request has timed out is not taken as the answer to a later request: a
\* tools/call request made after a timed-out one returns a value only from a
\* response line that carries its own id.
C34_LateResponseNotTaken ==
    \A t, u \in Threads :
        (/\ transport = "stdio"
         /\ callers[u].pc = "done"
         /\ callers[u].outcome = Raised("TimeoutError")
         /\ callers[t].pc = "done"
         /\ callers[t].op = "call"
         /\ callers[t].id > callers[u].id
         /\ callers[t].outcome.from # 0)
            => callers[t].outcome.from = callers[t].id

\* The text fragments of the partial events that come before the [DONE]
\* marker, or before the end of the body when there is no marker.
FragmentsBeforeEnd(events) ==
    LET ends == {i \in 1..Len(events) : events[i].kind = "done"}
        last == IF ends = {} THEN Len(events)
                ELSE (CHOOSE i \in ends : \A j \in ends : i <= j) - 1
        partials == SelectSeq(SubSeq(events, 1, last), LAMBDA ev : ev.kind = "partial")
    IN [i \in 1..Len(partials) |-> partials[i].parts[1]]

\* C39: a streaming call whose stream ends without a final event (the
\* child's output ends on stdio; the [DONE] marker or the end of the body on
\* HTTP) is not an error: the call returns the text fragments of the partial
\* events received up to there.
C39_StreamEndWithoutFinalIsNoError ==
    /\ [](\A t \in Threads :
            (/\ transport = "http"
             /\ callers[t].pc = "done"
             /\ callers[t].op = "stream"
             /\ httpSent[t] # << >>
             /\ httpSent[t][1].status = "200"
             /\ \A i \in 1..Len(httpSent[t][1].events) :
                   httpSent[t][1].events[i].kind # "final")
                => /\ callers[t].outcome.status = "returned"
                   /\ callers[t].outcome.shape = "text"
                   /\ callers[t].outcome.text
                         = Join(FragmentsBeforeEnd(httpSent[t][1].events)))
    /\ [][\A t \in Threads :
            (/\ callers[t].pc = "readline"
             /\ callers[t].op = "stream"
             /\ childOut = << >>
             /\ callers'[t].pc = "done")
                => /\ ~childAlive
                   /\ callers'[t].outcome = Returned("text", Join(callers[t].acc), 0)]_vars

\* Two partial events and the [DONE] marker: the call returned both fragments.
C39_Witness ==
    \E t \in Threads :
        /\ callers[t].pc = "done"
        /\ callers[t].op = "stream"
        /\ httpSent[t] # << >>
        /\ httpSent[t][1].events = Partials(2) \o <<Event("done", << >>, FALSE)>>
        /\ callers[t].outcome.text = <<PartialText(1), "\n", PartialText(2)>>

\* C7: for list_tools and execute_tool, a response whose id differs from the
\* id of the request is treated as an error: no call returns, as its result,
\* a value taken from a response line carrying another request's id.
C7_MismatchedIdNeverReturned ==
    \A t \in Threads :
        (callers[t].pc = "done" /\ callers[t].outcome.from # 0)
            => callers[t].outcome.from = callers[t].id

\* C8: when the child never writes, every execute_tool call that has sent its
\* request, streaming or not, eventually ends with a timeout failure, the
\* lock being free at that moment.
C8_SilentChildTimesOut ==
    \A t \in Threads :
        (childSilent /\ callers[t].op \in {"call", "stream"}
                     /\ callers[t].pc \in {"select", "readline"})
            ~> (/\ callers[t].pc = "done"
                /\ callers[t].outcome = Raised("TimeoutError")
                /\ lock = "none")

(***************************************************************************)
(* The authorization flow of one client under construction.                *)
(***************************************************************************)
AuthSpecInit ==
    /\ AuthInit
    /\ ChatIdle
    /\ RegistryInit
    /\ ImportIdle
    /\ McpIdle
    /\ HttpIdle
    /\ TeardownIdle
    /\ KeyIdle
    /\ StderrIdle

AuthNext ==
    \/ \E generated \in OAuthStates, bind_ok \in BOOLEAN :
          PerformOAuthIfNeeded(generated, bind_ok)
    \/ \E request \in CallbackRequests : Callback(request)
    \/ \E reply \in TokenReplies : TokenExchange(reply)

AuthSpec == AuthSpecInit /\ [][AuthNext]_vars

\* The steps the client takes by itself are taken; the arrival of a request
\* at the listener is up to the user's browser.
AuthFairness ==
    /\ WF_vars(\E generated \in OAuthStates, bind_ok \in BOOLEAN :
                  PerformOAuthIfNeeded(generated, bind_ok))
    /\ WF_vars(\E reply \in TokenReplies : TokenExchange(reply))

FairAuthSpec == AuthSpecInit /\ [][AuthNext]_vars /\ AuthFairness

\* C11: when the callback delivers a state different from the one generated
\* for the flow, the flow yields no token: no token request is sent, the
\* access token stays unset and nothing is persisted.
C11_StateMismatchYieldsNoToken ==
    (oauth_state # "" /\ oauthPc \in {"exchange", "done"}
                      /\ received_state # oauth_state)
        => /\ token_requests = << >>
           /\ access_token = None
           /\ stored_token = None

\* A callback with a code and with a state that is not the generated one has
\* been handled.
C11_Witness ==
    /\ oauthPc = "done"
    /\ oauth_state = "s1"
    /\ auth_code = "code"
    /\ received_state = "s2"

\* C18: when no request ever arrives at the local listener, the flow that
\* waits for the callback eventually ends (without a token) rather than
\* blocking its caller forever.
C18_CallbackWaitIsBounded ==
    (oauthPc = "waiting" /\ ~callbackArrives) ~> (oauthPc = "done")

(***************************************************************************)
(* The exit of the process that owns a stdio client.                       *)
(***************************************************************************)
TeardownSpecInit ==
    /\ TeardownInit
    /\ ChatIdle
    /\ RegistryLoaded
    /\ ImportIdle
    /\ McpIdle
    /\ AuthDone
    /\ HttpIdle
    /\ KeyIdle
    /\ StderrIdle

TeardownNext ==
    \/ \E p \in Group : ProcessExits(p)
    \/ \E path \in ExitPaths : OwnerExits(path)
    \/ Shutdown
    \/ ShutdownCalled

TeardownSpec == TeardownSpecInit /\ [][TeardownNext]_vars

\* C17: on every exit path of the owning process, abnormal ones included,
\* the stdio child is torn down by a signal to its whole process group and
\* its exit is awaited with a timeout: once the owner is gone, no process of
\* the group is alive without the group having been signalled, and a
\* signalled group has been waited for.
C17_ChildTornDownOnEveryExit ==
    owner = "gone" =>
        /\ \A p \in Group : proc[p] = "alive" => signalled
        /\ signalled => wait_result \in {"exited", "timeout"}

\* C32: the stdio child is torn down exactly once: however often shutdown is
\* invoked on a connection, its process group is signalled at most once, and
\* shutdown sends no signal when the child has already exited.
C32_SignalledAtMostOnce ==
    /\ [](signals_sent <= 1)
    /\ [][signals_sent' # signals_sent => proc[Leader] = "alive"]_vars

\* C29: when a client secret is configured for the server, the token request
\* authenticates with HTTP Basic authentication (an Authorization header) and
\* its body does not contain the client secret.
C29_SecretSentByBasicAuth ==
    \A i \in 1..Len(token_requests) :
        authConfig.client_secret =>
            /\ "Authorization" \in token_requests[i].headers
            /\ ~token_requests[i].client_secret_in_body

KeyInit ==
    /\ keyed = << >>
    /\ ChatIdle
    /\ RegistryLoaded
    /\ ImportIdle
    /\ McpIdle
    /\ AuthDone
    /\ HttpIdle
    /\ TeardownIdle
    /\ StderrIdle

KeyNext == \E name \in {"echo", "fetch"}, args \in ArgDicts : ComputeKey(name, args)

KeySpec == KeyInit /\ [][KeyNext]_vars

\* C26: the repetition key is canonical in the order of the argument keys and
\* tells requests apart: two requests have the same key exactly when they name
\* the same tool and carry the same arguments, in whatever order; a different
\* tool name or a different value of some argument gives a different key.
C26_KeyIsCanonical ==
    \A i, j \in DOMAIN keyed :
        keyed[i].key = keyed[j].key
            <=> (keyed[i].name = keyed[j].name
                 /\ AsMapping(keyed[i].args) = AsMapping(keyed[j].args))

\* Two requests for one tool with the same two arguments in opposite orders.
C26_Witness ==
    /\ Len(keyed) = 2
    /\ Len(keyed[1].args) = 2
    /\ keyed[1].args # keyed[2].args
    /\ keyed[1].key = keyed[2].key

====
